---- MODULE Spec2Model ----
(***************************************************************************)
(* AquaSentry backend: the JSON store accessor (backend/utils/             *)
(* json_loader.py), the tank status classifier (backend/services/          *)
(* tank_service.py) and the HTTP handlers of backend/main.py that call     *)
(* them.                                                                   *)
(*                                                                         *)
(* Every handler of main.py is an `async def` that calls the synchronous   *)
(* service functions without awaiting anything, and the process is started *)
(* by uvicorn.run(app) (one process, one event loop): a handler runs to    *)
(* completion before the next one starts.  One action is one handler call. *)
(*                                                                         *)
(* Python dicts are functions whose DOMAIN is the set of keys present, so  *)
(* d.get(k, default) and `not d` are modelled by what they do.  Date       *)
(* strings are sequences of one-character strings; strptime, timedelta     *)
(* addition and strftime are computed on them.  pH and turbidity are kept  *)
(* in hundredths (6.5 is 650).                                             *)
(***************************************************************************)
EXTENDS Integers, Sequences, FiniteSets, TLC

VARIABLES
    cache,   \* json_loader._cached_data, the module-level dict
    file,    \* backend/data/data.json: [valid |-> does it hold JSON, doc |-> the JSON]
    today,   \* date.today(), as a proleptic Gregorian ordinal
    resp,    \* the last call and its outcome, as its caller saw it
    loaded,  \* history: has load_data returned a document since the last reload_data
    nupd,    \* history: number of update_maintenance calls so far
    doc0,    \* history: the document data.json held when the process started
    done,    \* history: per tank, the cleaned_date of its last update that returned success
    wfail,   \* history: has a write of data.json failed
    users,   \* backend/data/users.json: [exists |-> is the file there, users |-> its list]
    active_tokens,  \* auth_service.active_tokens, the module-level dict
    clock,   \* datetime.now(), in hours since the process started
    issued,  \* history: per token returned by authenticate_user, the hour it was issued
    revoked  \* history: tokens a successful logout or an expired validation has deleted

vars == <<cache, file, today, resp, loaded, nupd, doc0, done, wfail,
          users, active_tokens, clock, issued, revoked>>
hist == <<doc0, done, wfail>>
auth == <<users, active_tokens, clock, issued, revoked>>

----------------------------------------------------------------------------
(* Python dict helpers *)

EmptyDict == [k \in {} |-> 0]

\* d.get(k, default)
Get(d, k, default) == IF k \in DOMAIN d THEN d[k] ELSE default

\* {**a, **b} and d[k] = v on a dict that may lack k
Merge(a, b) == [k \in DOMAIN a \cup DOMAIN b |-> IF k \in DOMAIN b THEN b[k] ELSE a[k]]

\* `not d` for a dict
Falsy(d) == DOMAIN d = {}

----------------------------------------------------------------------------
(* datetime: strptime(s, "%Y-%m-%d").date(), date + timedelta, strftime *)

Digits == {"0", "1", "2", "3", "4", "5", "6", "7", "8", "9"}

DigitVal(c) ==
    CASE c = "0" -> 0 [] c = "1" -> 1 [] c = "2" -> 2 [] c = "3" -> 3
      [] c = "4" -> 4 [] c = "5" -> 5 [] c = "6" -> 6 [] c = "7" -> 7
      [] c = "8" -> 8 [] c = "9" -> 9 [] OTHER -> 0

DigitChar(n) ==
    CASE n = 0 -> "0" [] n = 1 -> "1" [] n = 2 -> "2" [] n = 3 -> "3"
      [] n = 4 -> "4" [] n = 5 -> "5" [] n = 6 -> "6" [] n = 7 -> "7"
      [] n = 8 -> "8" [] OTHER -> "9"

RECURSIVE IntOf(_)
\* int(s) for a string of digits; a leading space (the " [1-9]" day form) counts 0
IntOf(s) == IF Len(s) = 0 THEN 0
            ELSE IntOf(SubSeq(s, 1, Len(s) - 1)) * 10 + DigitVal(s[Len(s)])

\* _strptime's regex for %Y: \d\d\d\d
MatchYear(p) == Len(p) = 4 /\ \A i \in 1..4 : p[i] \in Digits

\* _strptime's regex for %m: 1[0-2]|0[1-9]|[1-9]
MatchMonth(p) ==
    \/ Len(p) = 2 /\ p[1] = "1" /\ p[2] \in {"0", "1", "2"}
    \/ Len(p) = 2 /\ p[1] = "0" /\ p[2] \in Digits \ {"0"}
    \/ Len(p) = 1 /\ p[1] \in Digits \ {"0"}

\* _strptime's regex for %d: 3[0-1]|[1-2]\d|0[1-9]|[1-9]| [1-9]
MatchDay(p) ==
    \/ Len(p) = 2 /\ p[1] = "3" /\ p[2] \in {"0", "1"}
    \/ Len(p) = 2 /\ p[1] \in {"1", "2"} /\ p[2] \in Digits
    \/ Len(p) = 2 /\ p[1] = "0" /\ p[2] \in Digits \ {"0"}
    \/ Len(p) = 1 /\ p[1] \in Digits \ {"0"}
    \/ Len(p) = 2 /\ p[1] = " " /\ p[2] \in Digits \ {"0"}

\* The length of the month field of s under "%Y-%m-%d" (0: the format does not
\* match, or text is left over after the day)
MonthLen(s) ==
    IF \E ml \in {1, 2} :
          /\ Len(s) >= ml + 7
          /\ Len(s) <= ml + 8
          /\ MatchYear(SubSeq(s, 1, 4))
          /\ s[5] = "-"
          /\ MatchMonth(SubSeq(s, 6, 5 + ml))
          /\ s[6 + ml] = "-"
          /\ MatchDay(SubSeq(s, 7 + ml, Len(s)))
    THEN CHOOSE ml \in {1, 2} :
          /\ Len(s) >= ml + 7
          /\ Len(s) <= ml + 8
          /\ MatchYear(SubSeq(s, 1, 4))
          /\ s[5] = "-"
          /\ MatchMonth(SubSeq(s, 6, 5 + ml))
          /\ s[6 + ml] = "-"
          /\ MatchDay(SubSeq(s, 7 + ml, Len(s)))
    ELSE 0

IsLeap(y) == y % 4 = 0 /\ (y % 100 # 0 \/ y % 400 = 0)

DaysInMonth(y, m) ==
    IF m = 2 THEN (IF IsLeap(y) THEN 29 ELSE 28)
    ELSE IF m \in {4, 6, 9, 11} THEN 30 ELSE 31

\* datetime._DAYS_BEFORE_MONTH, plus the leap day
DaysBeforeMonth(y, m) ==
    LET base == <<0, 31, 59, 90, 120, 151, 181, 212, 243, 273, 304, 334>>
    IN  base[m] + (IF m > 2 /\ IsLeap(y) THEN 1 ELSE 0)

DaysBeforeYear(y) ==
    (y - 1) * 365 + ((y - 1) \div 4) - ((y - 1) \div 100) + ((y - 1) \div 400)

\* date.toordinal()
Ymd2Ord(dt) == DaysBeforeYear(dt.y) + DaysBeforeMonth(dt.y, dt.m) + dt.d

\* the fields strptime reads out of s (meaningful when MonthLen(s) > 0)
Fields(s) ==
    LET ml == MonthLen(s)
    IN  [y |-> IntOf(SubSeq(s, 1, 4)),
         m |-> IntOf(SubSeq(s, 6, 5 + ml)),
         d |-> IntOf(SubSeq(s, 7 + ml, Len(s)))]

\* does datetime.strptime(s, "%Y-%m-%d") return (TRUE) or raise ValueError
StrptimeOk(s) ==
    /\ MonthLen(s) > 0
    /\ Fields(s).y >= 1
    /\ Fields(s).d <= DaysInMonth(Fields(s).y, Fields(s).m)

\* datetime.strptime(s, "%Y-%m-%d").date()
Strptime(s) == Fields(s)

\* date.fromordinal(n), by datetime._ord2ymd
Ord2Ymd(ord) ==
    LET n0   == ord - 1
        n400 == n0 \div 146097
        r400 == n0 % 146097
        n100 == r400 \div 36524
        r100 == r400 % 36524
        n4   == r100 \div 1461
        r4   == r100 % 1461
        n1   == r4 \div 365
        n    == r4 % 365
        year == n400 * 400 + 1 + n100 * 100 + n4 * 4 + n1
    IN  IF n1 = 4 \/ n100 = 4
        THEN [y |-> year - 1, m |-> 12, d |-> 31]
        ELSE LET leap  == n1 = 3 /\ (n4 # 24 \/ n100 = 3)
                 m0    == (n + 50) \div 32
                 prec0 == DaysBeforeMonth(IF leap THEN 4 ELSE 1, m0)
                 month == IF prec0 > n THEN m0 - 1 ELSE m0
                 prec  == DaysBeforeMonth(IF leap THEN 4 ELSE 1, month)
             IN  [y |-> year, m |-> month, d |-> n - prec + 1]

RECURSIVE NatStr(_)
\* the decimal digits of n
NatStr(n) == IF n < 10 THEN <<DigitChar(n)>>
             ELSE NatStr(n \div 10) \o <<DigitChar(n % 10)>>

Pad2(n) == <<DigitChar(n \div 10), DigitChar(n % 10)>>

\* date.strftime("%Y-%m-%d"): %m and %d are zero-padded to two digits
Strftime(dt) == NatStr(dt.y) \o <<"-">> \o Pad2(dt.m) \o <<"-">> \o Pad2(dt.d)

\* date.max.toordinal(): date + timedelta past it raises OverflowError
MaxOrdinal == 3652059

AddDaysOffByOne(dt, n) == Ord2Ymd(Ymd2Ord(dt) + n - 1)

\* dt + timedelta(days=n), in range
AddDays(dt, n) == Ord2Ymd(Ymd2Ord(dt) + n)

----------------------------------------------------------------------------
(* The documents data.json holds in this model *)

D_2025_05_20 == <<"2", "0", "2", "5", "-", "0", "5", "-", "2", "0">>
D_2025_06_19 == <<"2", "0", "2", "5", "-", "0", "6", "-", "1", "9">>
D_2025_04_01 == <<"2", "0", "2", "5", "-", "0", "4", "-", "0", "1">>
D_2025_05_01 == <<"2", "0", "2", "5", "-", "0", "5", "-", "0", "1">>
D_2025_05_27 == <<"2", "0", "2", "5", "-", "0", "5", "-", "2", "7">>
D_2025_06_01 == <<"2", "0", "2", "5", "-", "0", "6", "-", "0", "1">>
D_2025_07_01 == <<"2", "0", "2", "5", "-", "0", "7", "-", "0", "1">>
D_2025_6_1   == <<"2", "0", "2", "5", "-", "6", "-", "1">>
D_2025_02_30 == <<"2", "0", "2", "5", "-", "0", "2", "-", "3", "0">>
D_slashes    == <<"0", "6", "/", "0", "1", "/", "2", "0", "2", "5">>

\* a tank record of data.json with the keys the services read
Tank(id, lc, nm, ph, turb) ==
    [id |-> id, name |-> id, location |-> [lat |-> 1234, lng |-> 5678],
     capacity_liters |-> 100000, current_level_percent |-> 50,
     last_cleaned |-> lc, next_maintenance |-> nm,
     current_readings |-> [ph |-> ph, turbidity |-> turb, temperature |-> 2000],
     history |-> <<>>]

Tank1 == Tank("T1", D_2025_05_20, D_2025_06_19, 700, 100)
Tank2 == Tank("T2", D_2025_04_01, D_2025_05_01, 700, 100)

Sched1 == [tank_id |-> "T1", cleaning_interval_days |-> 30,
           last_cleaned |-> D_2025_05_20, next_scheduled |-> D_2025_06_19]
\* an entry without cleaning_interval_days: update_maintenance defaults it
Sched2 == [tank_id |-> "T2",
           last_cleaned |-> D_2025_04_01, next_scheduled |-> D_2025_05_01]

DocFull == [tanks |-> <<Tank1, Tank2>>, alerts |-> <<>>,
            maintenance_schedule |-> <<Sched1, Sched2>>]
\* T2 has no schedule entry, and T1 is cleaned weekly
Sched1Weekly == [tank_id |-> "T1", cleaning_interval_days |-> 7,
                 last_cleaned |-> D_2025_05_20, next_scheduled |-> D_2025_05_27]
DocNoSched == [tanks |-> <<Tank("T1", D_2025_05_20, D_2025_05_27, 700, 100), Tank2>>,
               alerts |-> <<>>, maintenance_schedule |-> <<Sched1Weekly>>]
\* a fleet with no tanks and no alerts
DocNoTanks == [tanks |-> <<>>, alerts |-> <<>>, maintenance_schedule |-> <<>>]
\* the JSON object {}
DocEmpty == EmptyDict

InitDocs == {DocFull, DocNoSched, DocNoTanks, DocEmpty}

TankIds == {"T1", "T2", "T3"}
DateInputs == {D_2025_06_01, D_2025_6_1, D_2025_02_30, D_slashes}
NoteInputs == {"", "x"}
\* what open(DATA_FILE_PATH, 'w') / json.dump can do
WriteOutcomes == {"ok", "open_fails", "dump_fails"}

MaxUpdates == 2
MaxTicks == 2

\* date.today() when the process starts: 2025-06-18
Today0 == Ymd2Ord([y |-> 2025, m |-> 6, d |-> 18])

CorruptFile == [valid |-> FALSE, doc |-> EmptyDict]

----------------------------------------------------------------------------
(* json_loader *)

\* load_data(): [ok, data, reads]; ok = FALSE when json.load raises
LoadData(c, f) ==
    IF Falsy(c)
    THEN IF f.valid THEN [ok |-> TRUE, data |-> f.doc, reads |-> 1]
                    ELSE [ok |-> FALSE, data |-> c, reads |-> 1]
    ELSE [ok |-> TRUE, data |-> c, reads |-> 0]

\* the loop of lines 91-94: the index of the first tank with this id, 0 for None
FindTank(tanks, tank_id) ==
    IF \E i \in 1..Len(tanks) : tanks[i].id = tank_id
    THEN CHOOSE i \in 1..Len(tanks) :
            /\ tanks[i].id = tank_id
            /\ \A j \in 1..(i - 1) : tanks[j].id # tank_id
    ELSE 0

\* the first entry taken whatever its tank_id
FindSchedFirst(sched, tank_id) == IF Len(sched) > 0 THEN 1 ELSE 0

\* the loop of lines 101-104, with entry.get('tank_id')
FindSched(sched, tank_id) ==
    IF \E i \in 1..Len(sched) : Get(sched[i], "tank_id", "") = tank_id
    THEN CHOOSE i \in 1..Len(sched) :
            /\ Get(sched[i], "tank_id", "") = tank_id
            /\ \A j \in 1..(i - 1) : Get(sched[j], "tank_id", "") # tank_id
    ELSE 0

\* next_scheduled set, last_cleaned left as it was
MutateSchedNextOnly(entry, cleaned_date, next_str) ==
    Merge(entry, [next_scheduled |-> next_str])

\* lines 126-127 on the schedule entry
MutateSched(entry, cleaned_date, next_str) ==
    Merge(entry, [last_cleaned |-> cleaned_date, next_scheduled |-> next_str])

\* lines 134-138: the tank's "maintenance" dict
MaintenanceInfo(tank, cleaned_date, notes) ==
    LET info0 == Get(tank, "maintenance", EmptyDict)
        info1 == Merge(info0, [last_cleaned |-> cleaned_date])
    IN  IF notes # "" THEN Merge(info1, [notes |-> notes]) ELSE info1

\* lines 130-138 on the tank object
MutateTank(tank, cleaned_date, next_str, notes) ==
    Merge(tank, [last_cleaned |-> cleaned_date, next_maintenance |-> next_str,
                 maintenance |-> MaintenanceInfo(tank, cleaned_date, notes)])

\* the tank updated, the schedule entry left as it was
MutateDocTankOnly(data, ti, si, cleaned_date, next_str, notes) ==
    Merge(data,
          [tanks |-> [data.tanks EXCEPT ![ti] =
                          MutateTank(data.tanks[ti], cleaned_date, next_str, notes)]])

\* lines 126-138 on the document (data is the cached object itself)
MutateDoc(data, ti, si, cleaned_date, next_str, notes) ==
    Merge(data,
          [tanks |-> [data.tanks EXCEPT ![ti] =
                          MutateTank(data.tanks[ti], cleaned_date, next_str, notes)],
           maintenance_schedule |-> [data.maintenance_schedule EXCEPT ![si] =
                          MutateSched(data.maintenance_schedule[si], cleaned_date, next_str)]])

\* lines 141-142: what the file holds after open(..., 'w') and json.dump(data)
WriteFile(f, data, io) ==
    IF io = "ok" THEN [valid |-> TRUE, doc |-> data]
    ELSE IF io = "open_fails" THEN f
    ELSE CorruptFile

\* the cache left holding the document as it was before the call
CacheAfterUpdateStale(data, mutated, io) == data

\* the cached document after the call: the dict load_data returned is the
\* cached object, mutated in place by lines 126-138, and line 145 rebinds
\* _cached_data to it
CacheAfterUpdate(data, mutated, io) == mutated

\* main.py 220-225: a result without success becomes HTTPException(404)
ApiStatus(success) == IF success THEN 200 ELSE 404

BaseResp ==
    [op |-> "none", tank_id |-> "", cleaned_date |-> <<>>, notes |-> "", metric |-> "",
     alert_id |-> "", args |-> [tank_data |-> EmptyDict, history |-> <<>>],
     env |-> [key |-> FALSE,
              reply |-> [raises |-> TRUE, choices |-> FALSE, content |-> <<>>]],
     code |-> 0, error |-> "", reads |-> 0, wrote |-> FALSE, hadLoaded |-> FALSE,
     body |-> EmptyDict, prev |-> EmptyDict, at |-> 0]

\* what every call records: its name, when it ran, what load_data did for it
Call(op, ld) ==
    Merge(BaseResp, [op |-> op, reads |-> ld.reads, hadLoaded |-> loaded, at |-> today])

\* load_data raised: the exception leaves _cached_data as it was
Raised(op, ld) ==
    /\ resp' = Merge(Call(op, ld), [code |-> 500, error |-> "JSONDecodeError"])
    /\ UNCHANGED <<cache, file, loaded, today>>

NotDone == [t \in {"T1", "T2"} |-> <<>>]

\* a user of users.json
User(id, username, password, name, role) ==
    [id |-> id, username |-> username, password |-> password, name |-> name, role |-> role]

UserList == <<User(1, "admin", "pw1", "Admin", "admin"),
              User(2, "operator", "pw2", "Operator", "operator")>>

\* auth_service line 9 at start-up: active_tokens = {}, nobody has logged in
NoSessions ==
    /\ users = [exists |-> TRUE, users |-> UserList]
    /\ active_tokens = EmptyDict
    /\ clock = 0
    /\ issued = EmptyDict
    /\ revoked = {}

Init ==
    /\ cache = EmptyDict
    /\ file \in {[valid |-> TRUE, doc |-> d] : d \in InitDocs}
    /\ today = Today0
    /\ resp = BaseResp
    /\ loaded = FALSE
    /\ nupd = 0
    /\ doc0 = file.doc
    /\ done = NotDone
    /\ wfail = FALSE
    /\ NoSessions

\* the tank's last_cleaned assigned before the schedule entry and the date
\* are looked at
CacheAfterRefusalTouched(data, ti, cleaned_date) ==
    IF ti = 0 THEN data
    ELSE Merge(data, [tanks |-> [data.tanks EXCEPT ![ti] =
                                    Merge(data.tanks[ti], [last_cleaned |-> cleaned_date])]])

\* lines 96-118: the cached document when update_maintenance returns
\* success False; every assignment to it comes after the last such return
CacheAfterRefusal(data, ti, cleaned_date) == data

\* update_maintenance(tank_id, cleaned_date, notes) called by api_update_maintenance
UpdateMaintenance(tank_id, cleaned_date, notes, io) ==
    LET ld    == LoadData(cache, file)
        data  == ld.data
        tanks == Get(data, "tanks", <<>>)
        sched == Get(data, "maintenance_schedule", <<>>)
        ti    == FindTank(tanks, tank_id)
        si    == FindSched(sched, tank_id)
        call  == Merge(Call("update_maintenance", ld),
                       [tank_id |-> tank_id, cleaned_date |-> cleaned_date,
                        notes |-> notes])
        fail(err) == /\ resp' = Merge(call, [code |-> ApiStatus(FALSE), error |-> err])
                     /\ cache' = CacheAfterRefusal(data, ti, cleaned_date)
                     /\ loaded' = TRUE
                     /\ UNCHANGED <<file, done, wfail>>
    IN  /\ nupd < MaxUpdates
        /\ nupd' = nupd + 1
        /\ UNCHANGED <<today, doc0, auth>>
        /\ IF ~ld.ok
           THEN /\ resp' = Merge(call, [code |-> 500, error |-> "JSONDecodeError"])
                /\ UNCHANGED <<cache, file, loaded, done, wfail>>
           ELSE IF ti = 0 THEN fail("tank_not_found")
           ELSE IF si = 0 THEN fail("schedule_not_found")
           ELSE IF ~StrptimeOk(cleaned_date) THEN fail("invalid_date")
           ELSE
             LET interval == Get(sched[si], "cleaning_interval_days", 30)
                 cleaned_dt == Strptime(cleaned_date)
                 next_ord == Ymd2Ord(cleaned_dt) + interval
             IN  IF next_ord < 1 \/ next_ord > MaxOrdinal
                 THEN /\ resp' = Merge(call, [code |-> 500, error |-> "OverflowError"])
                      /\ cache' = data
                      /\ loaded' = TRUE
                      /\ UNCHANGED <<file, done, wfail>>
                 ELSE
                   LET next_str == Strftime(AddDays(cleaned_dt, interval))
                       mutated  == MutateDoc(data, ti, si, cleaned_date, next_str, notes)
                   IN  /\ cache' = CacheAfterUpdate(data, mutated, io)
                       /\ file' = WriteFile(file, mutated, io)
                       /\ loaded' = TRUE
                       /\ done' = IF io = "ok" THEN [done EXCEPT ![tank_id] = cleaned_date]
                                  ELSE done
                       /\ wfail' = (wfail \/ io # "ok")
                       /\ resp' = IF io = "ok"
                                  THEN Merge(call, [wrote |-> TRUE,
                                                    code |-> ApiStatus(TRUE),
                                                    body |-> mutated.tanks[ti]])
                                  ELSE Merge(call, [wrote |-> io = "dump_fails",
                                                    code |-> 500, error |-> "OSError"])

\* reload_data(), called by POST /api/reload: the cache is cleared, then loaded
ReloadData ==
    LET ld == LoadData(EmptyDict, file)
    IN  /\ cache' = IF ld.ok THEN ld.data ELSE EmptyDict
        /\ loaded' = ld.ok
        /\ resp' = Merge(Call("reload_data", ld),
                         [code |-> IF ld.ok THEN 200 ELSE 500,
                          error |-> IF ld.ok THEN "" ELSE "JSONDecodeError",
                          body |-> IF ld.ok THEN ld.data ELSE EmptyDict])
        /\ UNCHANGED <<file, today, nupd, hist, auth>>

\* load_data() called on its own
LoadDocument ==
    LET ld == LoadData(cache, file)
    IN  /\ UNCHANGED <<nupd, hist, auth>>
        /\ IF ~ld.ok THEN Raised("load_data", ld)
           ELSE /\ cache' = ld.data
                /\ loaded' = TRUE
                /\ resp' = Merge(Call("load_data", ld), [code |-> 200, body |-> ld.data])
                /\ UNCHANGED <<file, today>>

\* get_tanks()
GetTanks ==
    LET ld == LoadData(cache, file)
    IN  /\ UNCHANGED <<nupd, hist, auth>>
        /\ IF ~ld.ok THEN Raised("get_tanks", ld)
           ELSE /\ cache' = ld.data
                /\ loaded' = TRUE
                /\ resp' = Merge(Call("get_tanks", ld),
                                 [code |-> 200, body |-> Get(ld.data, "tanks", <<>>)])
                /\ UNCHANGED <<file, today>>

\* get_maintenance_schedule()
GetMaintenanceSchedule ==
    LET ld == LoadData(cache, file)
    IN  /\ UNCHANGED <<nupd, hist, auth>>
        /\ IF ~ld.ok THEN Raised("get_maintenance_schedule", ld)
           ELSE /\ cache' = ld.data
                /\ loaded' = TRUE
                /\ resp' = Merge(Call("get_maintenance_schedule", ld),
                                 [code |-> 200,
                                  body |-> Get(ld.data, "maintenance_schedule", <<>>)])
                /\ UNCHANGED <<file, today>>

\* get_tank_by_id(tank_id): code 404 stands for None
GetTankById(tank_id) ==
    LET ld    == LoadData(cache, file)
        tanks == Get(ld.data, "tanks", <<>>)
        ti    == FindTank(tanks, tank_id)
        call  == Merge(Call("get_tank_by_id", ld), [tank_id |-> tank_id])
    IN  /\ UNCHANGED <<nupd, hist, auth>>
        /\ IF ~ld.ok THEN Raised("get_tank_by_id", ld)
           ELSE /\ cache' = ld.data
                /\ loaded' = TRUE
                /\ resp' = IF ti = 0 THEN Merge(call, [code |-> 404])
                           ELSE Merge(call, [code |-> 200, body |-> tanks[ti]])
                /\ UNCHANGED <<file, today>>

----------------------------------------------------------------------------
(* tank_service *)

D_2024_01_01 == <<"2", "0", "2", "4", "-", "0", "1", "-", "0", "1">>

\* calculate_days_since_cleaned(last_cleaned) on the day td
CalculateDaysSinceCleaned(last_cleaned, td) == td - Ymd2Ord(Strptime(last_cleaned))

\* an overdue date counted as due today
CalculateDaysUntilMaintenanceOrZero(next_maintenance, td) ==
    IF Ymd2Ord(Strptime(next_maintenance)) < td THEN 0
    ELSE Ymd2Ord(Strptime(next_maintenance)) - td

\* calculate_days_until_maintenance(next_maintenance) on the day td
CalculateDaysUntilMaintenance(next_maintenance, td) ==
    Ymd2Ord(Strptime(next_maintenance)) - td

\* the cleaning age thresholds taken inclusive
GetTankStatusInclusive(tank, td) ==
    LET readings  == Get(tank, "current_readings", EmptyDict)
        ph        == Get(readings, "ph", 700)
        turbidity == Get(readings, "turbidity", 0)
        days_since_cleaned ==
            CalculateDaysSinceCleaned(Get(tank, "last_cleaned", D_2024_01_01), td)
    IN  IF turbidity > 500 \/ ph < 650 \/ ph > 850 \/ days_since_cleaned >= 30
        THEN IF turbidity > 700 \/ ph < 600 \/ ph > 900 \/ days_since_cleaned >= 60
             THEN "critical"
             ELSE "warning"
        ELSE "normal"

\* get_tank_status(tank) on the day td; readings in hundredths
GetTankStatus(tank, td) ==
    LET readings  == Get(tank, "current_readings", EmptyDict)
        ph        == Get(readings, "ph", 700)
        turbidity == Get(readings, "turbidity", 0)
        days_since_cleaned ==
            CalculateDaysSinceCleaned(Get(tank, "last_cleaned", D_2024_01_01), td)
    IN  IF turbidity > 500 \/ ph < 650 \/ ph > 850 \/ days_since_cleaned > 30
        THEN IF turbidity > 700 \/ ph < 600 \/ ph > 900 \/ days_since_cleaned > 60
             THEN "critical"
             ELSE "warning"
        ELSE "normal"

\* the three derived fields of a read on the day td
Derived(tank, td) ==
    [status |-> GetTankStatus(tank, td),
     days_since_cleaned |-> CalculateDaysSinceCleaned(tank.last_cleaned, td),
     days_until_maintenance |-> CalculateDaysUntilMaintenance(tank.next_maintenance, td)]

\* strptime raises ValueError on a stored date that does not parse
DatesParse(tank) ==
    /\ StrptimeOk(tank.last_cleaned)
    /\ StrptimeOk(tank.next_maintenance)
    /\ StrptimeOk(Get(tank, "last_cleaned", D_2024_01_01))

\* lines 40-52: the dict get_all_tanks_with_status builds for one tank
ListedTank(tank, td) ==
    Merge([k \in {"id", "name", "location", "capacity_liters", "current_level_percent",
                  "last_cleaned", "next_maintenance", "current_readings"} |-> tank[k]],
          Derived(tank, td))

\* lines 66-71: {**tank, 'status': ..., ...}, a new dict
SingleTank(tank, td) == Merge(tank, Derived(tank, td))

\* the derived fields written into the cached tank
CacheAfterReadStoring(data, ti, td) ==
    Merge(data, [tanks |-> [data.tanks EXCEPT ![ti] = SingleTank(data.tanks[ti], td)]])

\* the cached document after a read of tank ti: the services build new dicts
\* and leave the cached tank as it is
CacheAfterRead(data, ti, td) == data

\* get_single_tank(tank_id): code 404 stands for None
GetSingleTank(tank_id) ==
    LET ld    == LoadData(cache, file)
        tanks == Get(ld.data, "tanks", <<>>)
        ti    == FindTank(tanks, tank_id)
        call  == Merge(Call("get_single_tank", ld), [tank_id |-> tank_id])
    IN  /\ UNCHANGED <<nupd, hist, auth>>
        /\ IF ~ld.ok THEN Raised("get_single_tank", ld)
           ELSE /\ loaded' = TRUE
                /\ UNCHANGED <<file, today>>
                /\ IF ti = 0
                   THEN /\ resp' = Merge(call, [code |-> 404])
                        /\ cache' = ld.data
                   ELSE IF ~DatesParse(tanks[ti])
                   THEN /\ resp' = Merge(call, [code |-> 500, error |-> "ValueError"])
                        /\ cache' = ld.data
                   ELSE /\ resp' = Merge(call, [code |-> 200,
                                                body |-> SingleTank(tanks[ti], today)])
                        /\ cache' = CacheAfterRead(ld.data, ti, today)

\* get_all_tanks_with_status(), the read behind the fleet list, the map, the
\* ward aggregation and the heatmap
GetAllTanksWithStatus ==
    LET ld    == LoadData(cache, file)
        tanks == Get(ld.data, "tanks", <<>>)
        call  == Call("get_all_tanks_with_status", ld)
    IN  /\ UNCHANGED <<nupd, hist, auth>>
        /\ IF ~ld.ok THEN Raised("get_all_tanks_with_status", ld)
           ELSE /\ loaded' = TRUE
                /\ cache' = ld.data
                /\ UNCHANGED <<file, today>>
                /\ resp' = IF \E i \in 1..Len(tanks) : ~DatesParse(tanks[i])
                           THEN Merge(call, [code |-> 500, error |-> "ValueError"])
                           ELSE Merge(call,
                                      [code |-> 200,
                                       body |-> [i \in 1..Len(tanks) |->
                                                    ListedTank(tanks[i], today)]])

\* gis_service.get_heatmap_data: one point of the heatmap, from the dict
\* get_all_tanks_with_status built for the tank
HeatmapPoint(listed, metric) ==
    LET location == Get(listed, "location", EmptyDict)
        readings == Get(listed, "current_readings", EmptyDict)
        status   == Get(listed, "status", "normal")
    IN  [lat |-> Get(location, "lat", 0),
         lng |-> Get(location, "lng", 0),
         value |-> IF metric = "health_score"
                   THEN (IF status = "critical" THEN 30
                         ELSE IF status = "warning" THEN 60 ELSE 90)
                   ELSE IF metric = "water_level"
                   THEN Get(listed, "current_level_percent", 50)
                   ELSE 50,
         tank_id |-> listed.id,
         tank_name |-> listed.name,
         status |-> status]

Metrics == {"health_score", "water_level"}

\* get_heatmap_data(metric): the heatmap aggregation over the fleet list
GetHeatmapData(metric) ==
    LET ld    == LoadData(cache, file)
        tanks == Get(ld.data, "tanks", <<>>)
        call  == Merge(Call("get_heatmap_data", ld), [metric |-> metric])
    IN  /\ UNCHANGED <<nupd, hist, auth>>
        /\ IF ~ld.ok THEN Raised("get_heatmap_data", ld)
           ELSE /\ loaded' = TRUE
                /\ cache' = ld.data
                /\ UNCHANGED <<file, today>>
                /\ resp' = IF \E i \in 1..Len(tanks) : ~DatesParse(tanks[i])
                           THEN Merge(call, [code |-> 500, error |-> "ValueError"])
                           ELSE Merge(call,
                                      [code |-> 200,
                                       body |-> [i \in 1..Len(tanks) |->
                                           HeatmapPoint(ListedTank(tanks[i], today),
                                                        metric)]])

----------------------------------------------------------------------------
(* The store accessor under any order of calls *)

Next ==
    \/ \E t \in TankIds, d \in DateInputs, n \in NoteInputs, io \in WriteOutcomes :
          UpdateMaintenance(t, d, n, io)
    \/ ReloadData
    \/ LoadDocument
    \/ GetTanks
    \/ GetMaintenanceSchedule
    \/ \E t \in TankIds : GetTankById(t)

Spec == Init /\ [][Next]_vars

----------------------------------------------------------------------------
(* The status classifier: one tank with readings around every threshold,   *)
(* read on days around every threshold while the date advances             *)

PhValues == {590, 600, 649, 650, 700, 850, 851, 900, 901, 920}
TurbidityValues == {0, 500, 501, 700, 701, 800}
\* days since 2025-05-20 on the first day of a run
StartAges == {-1, 29, 59, 64}

StartDays == {Ymd2Ord(Strptime(D_2025_05_20)) + a : a \in StartAges}

\* every pH with clear water, every turbidity with neutral pH, and the corners
Readings ==
    {<<ph, 0>> : ph \in PhValues} \cup {<<700, tu>> : tu \in TurbidityValues}
        \cup {<<920, 800>>, <<650, 500>>, <<850, 500>>}

StatusDocs ==
    {[tanks |-> <<Tank("T1", D_2025_05_20, D_2025_06_19, r[1], r[2])>>, alerts |-> <<>>,
      maintenance_schedule |-> <<Sched1>>] : r \in Readings}

InitStatus ==
    /\ cache = EmptyDict
    /\ file \in {[valid |-> TRUE, doc |-> d] : d \in StatusDocs}
    /\ today \in StartDays
    /\ resp = BaseResp
    /\ loaded = FALSE
    /\ nupd = 0
    /\ doc0 = file.doc
    /\ done = NotDone
    /\ wfail = FALSE
    /\ NoSessions

\* the calendar day changes
Tick ==
    /\ \E s \in StartDays : s <= today /\ today < s + MaxTicks
    /\ today' = today + 1
    /\ UNCHANGED <<cache, file, resp, loaded, nupd, hist, auth>>

NextStatus ==
    \/ \E t \in {"T1", "T3"} : GetSingleTank(t)
    \/ GetAllTanksWithStatus
    \/ \E m \in Metrics : GetHeatmapData(m)
    \/ \E io \in WriteOutcomes : UpdateMaintenance("T1", D_2025_06_01, "", io)
    \/ Tick

SpecStatus == InitStatus /\ [][NextStatus]_vars

----------------------------------------------------------------------------
(* Python floats: IEEE-754 binary64, round to nearest, ties to even.        *)
(* A float is [s, m, e], the number s * m * 2^e with m a natural number of   *)
(* at most 53 bits kept as a sequence of limbs, least significant first.     *)
(* Readings stand in the documents as decimal numbers (hundredths); json     *)
(* parses each to the nearest float.                                         *)

\* the limbs are base 2^15, so that a product of two fits the integers
LimbBits == 15
Base == 32768
MantissaBits == 53

RECURSIVE Pow2(_)
Pow2(n) == IF n = 0 THEN 1 ELSE 2 * Pow2(n - 1)

RECURSIVE BigNorm(_)
BigNorm(a) ==
    IF a = <<>> THEN <<>>
    ELSE IF a[Len(a)] = 0 THEN BigNorm(SubSeq(a, 1, Len(a) - 1))
    ELSE a

RECURSIVE BigFromNat(_)
BigFromNat(n) == IF n = 0 THEN <<>> ELSE <<n % Base>> \o BigFromNat(n \div Base)

RECURSIVE BigToNat(_)
BigToNat(a) == IF a = <<>> THEN 0 ELSE Head(a) + Base * BigToNat(Tail(a))

RECURSIVE BigCmpAt(_, _, _)
BigCmpAt(a, b, i) ==
    IF i = 0 THEN 0
    ELSE IF a[i] > b[i] THEN 1
    ELSE IF a[i] < b[i] THEN -1
    ELSE BigCmpAt(a, b, i - 1)

\* -1, 0, 1 as a < b, a = b, a > b
BigCmp(a, b) ==
    IF Len(a) > Len(b) THEN 1
    ELSE IF Len(a) < Len(b) THEN -1
    ELSE BigCmpAt(a, b, Len(a))

RECURSIVE BigAddC(_, _, _)
BigAddC(a, b, c) ==
    IF a = <<>> /\ b = <<>> THEN (IF c = 0 THEN <<>> ELSE <<c>>)
    ELSE LET x == IF a = <<>> THEN 0 ELSE Head(a)
             y == IF b = <<>> THEN 0 ELSE Head(b)
             t == x + y + c
         IN  <<t % Base>> \o BigAddC(IF a = <<>> THEN <<>> ELSE Tail(a),
                                     IF b = <<>> THEN <<>> ELSE Tail(b),
                                     t \div Base)

BigAdd(a, b) == BigAddC(a, b, 0)

RECURSIVE BigSubB(_, _, _)
BigSubB(a, b, c) ==
    IF a = <<>> THEN <<>>
    ELSE LET y == IF b = <<>> THEN 0 ELSE Head(b)
             t == Head(a) - y - c
         IN  <<t % Base>> \o BigSubB(Tail(a), IF b = <<>> THEN <<>> ELSE Tail(b),
                                     IF t < 0 THEN 1 ELSE 0)

\* a - b for a >= b
BigSub(a, b) == BigNorm(BigSubB(a, b, 0))

RECURSIVE BigMulSmallC(_, _, _)
BigMulSmallC(a, k, c) ==
    IF a = <<>> THEN (IF c = 0 THEN <<>> ELSE <<c>>)
    ELSE LET t == Head(a) * k + c
         IN  <<t % Base>> \o BigMulSmallC(Tail(a), k, t \div Base)

\* a * k for 0 <= k < Base
BigMulSmall(a, k) == BigNorm(BigMulSmallC(a, k, 0))

RECURSIVE BigMul(_, _)
BigMul(a, b) ==
    IF a = <<>> \/ b = <<>> THEN <<>>
    ELSE BigAdd(BigMulSmall(a, Head(b)),
                LET r == BigMul(a, Tail(b)) IN IF r = <<>> THEN <<>> ELSE <<0>> \o r)

RECURSIVE BigDivSmall(_, _)
\* quotient and remainder of a by k, 0 < k < Base
BigDivSmall(a, k) ==
    IF a = <<>> THEN [q |-> <<>>, r |-> 0]
    ELSE LET hi  == BigDivSmall(Tail(a), k)
             cur == hi.r * Base + Head(a)
         IN  [q |-> BigNorm(<<cur \div k>> \o hi.q), r |-> cur % k]

RECURSIVE BitsOf(_)
BitsOf(n) == IF n = 0 THEN 0 ELSE 1 + BitsOf(n \div 2)

BitLen(a) == IF a = <<>> THEN 0 ELSE LimbBits * (Len(a) - 1) + BitsOf(a[Len(a)])

\* a * 2^n
BigShl(a, n) ==
    IF a = <<>> THEN <<>>
    ELSE [i \in 1..(n \div LimbBits) |-> 0] \o BigMulSmall(a, Pow2(n % LimbBits))

\* a div 2^n
BigShr(a, n) ==
    IF n \div LimbBits >= Len(a) THEN <<>>
    ELSE BigDivSmall(SubSeq(a, (n \div LimbBits) + 1, Len(a)), Pow2(n % LimbBits)).q

\* a / 2^n rounded to the nearest natural, a tie to the even one
BigShrRound(a, n) ==
    IF n = 0 THEN a
    ELSE LET q    == BigShr(a, n)
             r    == BigSub(a, BigShl(q, n))
             half == BigShl(<<1>>, n - 1)
             c    == BigCmp(r, half)
             odd  == q # <<>> /\ Head(q) % 2 = 1
         IN  IF c > 0 \/ (c = 0 /\ odd) THEN BigAdd(q, <<1>>) ELSE q

FZero == [s |-> 1, m |-> <<>>, e |-> 0]

\* the float nearest to s * m * 2^e
FRound(s, m, e) ==
    IF m = <<>> THEN FZero
    ELSE IF BitLen(m) <= MantissaBits THEN [s |-> s, m |-> m, e |-> e]
    ELSE LET sh == BitLen(m) - MantissaBits
         IN  [s |-> s, m |-> BigShrRound(m, sh), e |-> e + sh]

\* float(n) of an int
FInt(n) == IF n = 0 THEN FZero
           ELSE [s |-> IF n < 0 THEN -1 ELSE 1, m |-> BigFromNat(IF n < 0 THEN -n ELSE n),
                 e |-> 0]

FNeg(x) == IF x.m = <<>> THEN x ELSE [x EXCEPT !.s = -x.s]
FAbs(x) == [x EXCEPT !.s = 1]

\* the two mantissas over the common exponent
FAligned(x, y) ==
    LET e == IF x.e < y.e THEN x.e ELSE y.e
    IN  [e |-> e, mx |-> BigShl(x.m, x.e - e), my |-> BigShl(y.m, y.e - e)]

\* -1, 0, 1 as x < y, x = y, x > y
FCmp(x, y) ==
    LET a == FAligned(x, y)
        sx == IF x.m = <<>> THEN 0 ELSE x.s
        sy == IF y.m = <<>> THEN 0 ELSE y.s
    IN  IF sx # sy THEN (IF sx > sy THEN 1 ELSE -1)
        ELSE sx * BigCmp(a.mx, a.my)

FGt(x, y) == FCmp(x, y) > 0
FLt(x, y) == FCmp(x, y) < 0

\* x + y
FAdd(x, y) ==
    LET a == FAligned(x, y)
    IN  IF x.m = <<>> THEN y
        ELSE IF y.m = <<>> THEN x
        ELSE IF x.s = y.s THEN FRound(x.s, BigAdd(a.mx, a.my), a.e)
        ELSE IF BigCmp(a.mx, a.my) >= 0 THEN FRound(x.s, BigSub(a.mx, a.my), a.e)
        ELSE FRound(y.s, BigSub(a.my, a.mx), a.e)

\* x - y
FSub(x, y) == FAdd(x, FNeg(y))

\* x * y
FMul(x, y) == FRound(x.s * y.s, BigMul(x.m, y.m), x.e + y.e)

\* the quotient is taken to GuardBits more bits than the mantissa has and a
\* last bit says whether anything was left over
GuardBits == 80

\* x / n for an int n, 0 < n < Base
FDivInt(x, n) ==
    LET d == BigDivSmall(BigShl(x.m, GuardBits), n)
        sticky == IF d.r = 0 THEN <<>> ELSE <<1>>
    IN  FRound(x.s, BigAdd(BigMulSmall(d.q, 2), sticky), x.e - GuardBits - 1)

\* the float json.loads gives for the decimal n / scale, and a literal of
\* the source
FDec(n, scale) == FDivInt(FInt(n), scale)

\* int(x): towards zero
FTrunc(x) ==
    x.s * BigToNat(IF x.e >= 0 THEN BigShl(x.m, x.e) ELSE BigShr(x.m, -x.e))

\* round(x, ndigits) as the integer number of 1/scale (scale = 10^ndigits):
\* the decimal nearest to the exact value of x, a tie to the even one
PyRound(x, scale) ==
    LET m == BigMulSmall(x.m, scale)
    IN  x.s * BigToNat(IF x.e >= 0 THEN BigShl(m, x.e) ELSE BigShrRound(m, -x.e))

----------------------------------------------------------------------------
(* analytics_service.get_trend_analysis and tank_service.get_tank_history *)

\* a reading of the document, held in hundredths, as the float the code computes with
Reading(v) == FDec(v, 100)

\* lines 88-92, 94-98, 100-104: the label of one quantity
TrendLabel(recent, older, threshold) ==
    IF FGt(FSub(Reading(recent), Reading(older)), threshold) THEN "increasing"
    ELSE IF FGt(FSub(Reading(older), Reading(recent)), threshold) THEN "decreasing"
    ELSE "stable"

\* lines 81-112: the verdict for a tank that exists
TrendAnalysis(tank_id, history) ==
    IF Len(history) < 2 THEN [trend |-> "insufficient_data"]
    ELSE LET recent == history[Len(history)]
             older  == history[1]
         IN  [tank_id |-> tank_id,
              ph_trend |-> TrendLabel(recent.ph, older.ph, FDec(3, 10)),
              turbidity_trend |-> TrendLabel(recent.turbidity, older.turbidity, FInt(1)),
              temperature_trend |->
                  TrendLabel(recent.temperature, older.temperature, FInt(1)),
              data_points |-> Len(history)]

\* the last history entry taken off the cached tank
CacheAfterTrendPop(data, ti) ==
    Merge(data,
          [tanks |-> [data.tanks EXCEPT ![ti] =
              Merge(@, [history |-> SubSeq(@.history, 1, Len(@.history) - 1)])]])

\* the cached document after get_trend_analysis: the history is only read
CacheAfterTrend(data, ti) == data

\* get_trend_analysis(tank_id); code 404 stands for {'error': 'Tank not found'}
GetTrendAnalysis(tank_id) ==
    LET ld    == LoadData(cache, file)
        tanks == Get(ld.data, "tanks", <<>>)
        ti    == FindTank(tanks, tank_id)
        call  == Merge(Call("get_trend_analysis", ld), [tank_id |-> tank_id])
    IN  /\ UNCHANGED <<nupd, hist, auth>>
        /\ IF ~ld.ok THEN Raised("get_trend_analysis", ld)
           ELSE /\ loaded' = TRUE
                /\ UNCHANGED <<file, today>>
                /\ IF ti = 0
                   THEN /\ resp' = Merge(call, [code |-> 404, error |-> "Tank not found"])
                        /\ cache' = ld.data
                   ELSE /\ resp' = Merge(call,
                               [code |-> 200,
                                body |-> TrendAnalysis(tank_id,
                                                       Get(tanks[ti], "history", <<>>)),
                                prev |-> IF /\ resp.op = "get_trend_analysis"
                                            /\ resp.code = 200
                                            /\ resp.tank_id = tank_id
                                         THEN resp.body ELSE EmptyDict])
                        /\ cache' = CacheAfterTrend(ld.data, ti)

\* get_tank_history(tank_id); code 404 stands for None
GetTankHistory(tank_id) ==
    LET ld    == LoadData(cache, file)
        tanks == Get(ld.data, "tanks", <<>>)
        ti    == FindTank(tanks, tank_id)
        call  == Merge(Call("get_tank_history", ld), [tank_id |-> tank_id])
    IN  /\ UNCHANGED <<nupd, hist, auth>>
        /\ IF ~ld.ok THEN Raised("get_tank_history", ld)
           ELSE /\ loaded' = TRUE
                /\ cache' = ld.data
                /\ UNCHANGED <<file, today>>
                /\ resp' = IF ti = 0 THEN Merge(call, [code |-> 404])
                           ELSE Merge(call, [code |-> 200,
                                             body |-> Get(tanks[ti], "history", <<>>)])

\* one history entry; the readings in hundredths
Entry(ph, tu, te) ==
    [date |-> D_2025_05_20, ph |-> ph, turbidity |-> tu, temperature |-> te]

\* first and last reading of one quantity, around its threshold from both sides
PhPairs == {<<700, 730>>, <<710, 740>>, <<730, 700>>, <<740, 710>>,
            <<700, 731>>, <<731, 700>>, <<700, 700>>}
TurbidityPairs == {<<100, 200>>, <<120, 220>>, <<200, 100>>, <<220, 120>>,
                   <<100, 201>>, <<201, 100>>}
TemperaturePairs == {<<2000, 2100>>, <<1501, 1601>>, <<2100, 2000>>, <<1601, 1501>>,
                     <<2000, 2101>>, <<2101, 2000>>}

EndEntries ==
    {<<Entry(p[1], 100, 2000), Entry(p[2], 100, 2000)>> : p \in PhPairs}
        \cup {<<Entry(700, p[1], 2000), Entry(700, p[2], 2000)>> : p \in TurbidityPairs}
        \cup {<<Entry(700, 100, p[1]), Entry(700, 100, p[2])>> : p \in TemperaturePairs}

\* histories of no, one, two and three entries; a middle entry far from both ends
TrendHistories ==
    {<<>>, <<Entry(700, 100, 2000)>>}
        \cup EndEntries
        \cup {<<h[1], Entry(1400, 900, 4000), h[2]>> : h \in EndEntries}

TrendDocs ==
    {[tanks |-> <<Merge(Tank1, [history |-> h]), Tank2>>, alerts |-> <<>>,
      maintenance_schedule |-> <<Sched1, Sched2>>] : h \in TrendHistories}

InitTrend ==
    /\ cache = EmptyDict
    /\ file \in {[valid |-> TRUE, doc |-> d] : d \in TrendDocs}
    /\ today = Today0
    /\ resp = BaseResp
    /\ loaded = FALSE
    /\ nupd = 0
    /\ doc0 = file.doc
    /\ done = NotDone
    /\ wfail = FALSE
    /\ NoSessions

NextTrend ==
    \/ \E t \in TankIds : GetTrendAnalysis(t)
    \/ \E t \in TankIds : GetTankHistory(t)
    \/ UpdateMaintenance("T1", D_2025_06_01, "x", "ok")
    \/ ReloadData

SpecTrend == InitTrend /\ [][NextTrend]_vars

----------------------------------------------------------------------------
(* ai_prediction_service: the model call and the five fallback predictors *)

\* a reply of the model as a sequence of tokens: "{" and "}", "k" a member
\* "name": value, "," between members, " " white space, "x" any other text
Strip(text) ==
    LET idx == {i \in 1..Len(text) : text[i] # " "}
    IN  IF idx = {} THEN <<>>
        ELSE SubSeq(text, CHOOSE i \in idx : \A j \in idx : i <= j,
                          CHOOSE i \in idx : \A j \in idx : i >= j)

\* json.loads of a token sequence: an object of members, or ValueError
JsonLoads(str) ==
    LET t == SelectSeq(str, LAMBDA c : c # " ")
        inner == SubSeq(t, 2, Len(t) - 1)
        wellFormed ==
            /\ Len(t) >= 2 /\ t[1] = "{" /\ t[Len(t)] = "}"
            /\ inner = <<>> \/ Len(inner) % 2 = 1
            /\ \A i \in 1..Len(inner) : inner[i] = IF i % 2 = 1 THEN "k" ELSE ","
    IN  IF wellFormed THEN [ok |-> TRUE, members |-> (Len(t) - 1) \div 2]
        ELSE [ok |-> FALSE, members |-> 0]

\* lines 34, 37, 39-41 answered as for the text holding a "{" wherever it is
ExtractJsonNoBraceCheck(text) ==
    [ok |-> text # <<>>, members |-> 0]

\* _extract_json_from_text(text); ok FALSE stands for ValueError
ExtractJsonFromText(text) ==
    IF text = <<>> THEN [ok |-> FALSE, members |-> 0]
    ELSE LET t      == Strip(text)
             opens  == {i \in 1..Len(t) : t[i] = "{"}
             closes == {i \in 1..Len(t) : t[i] = "}"}
         IN  IF opens = {} \/ closes = {} THEN [ok |-> FALSE, members |-> 0]
             ELSE JsonLoads(SubSeq(t, CHOOSE i \in opens : \A j \in opens : i <= j,
                                      CHOOSE i \in closes : \A j \in closes : i >= j))

\* lines 102-110: chat.completions.create and the parse of its reply, all
\* inside the try; ok FALSE stands for any exception
GroqReply(env) ==
    IF env.reply.raises THEN [ok |-> FALSE, members |-> 0]
    ELSE ExtractJsonFromText(IF env.reply.choices THEN env.reply.content ELSE <<>>)

\* get_groq_client(): None without GROQ_API_KEY
GetGroqClient(env) == env.key

\* max(0, x)
FMax0(x) == IF FGt(x, FZero) THEN x ELSE FZero

\* lines 126-133 with the change divided by the number of steps
TrendRatePerStep(history, key, cur) ==
    IF Len(history) >= 2
    THEN FDivInt(FSub(Reading(Get(history[Len(history)], key, cur)),
                      Reading(Get(history[1], key, cur))), Len(history) - 1)
    ELSE FZero

\* lines 126-133: (history[-1].get(key, cur) - history[0].get(key, cur))
\* / len(history), 0 for a history of fewer than two entries
TrendRate(history, key, cur) ==
    IF Len(history) >= 2
    THEN FDivInt(FSub(Reading(Get(history[Len(history)], key, cur)),
                      Reading(Get(history[1], key, cur))), Len(history))
    ELSE FZero

\* lines 119-122 with 0 for every reading that is missing
CurrentReadingOrZero(tank_data, key) ==
    Get(Get(tank_data, "current_readings", EmptyDict), key, 0)

\* lines 119-122: readings.get("ph", 7.0), readings.get("turbidity", 1.0),
\* readings.get("temperature", 20.0), in hundredths
CurrentReading(tank_data, key) ==
    Get(Get(tank_data, "current_readings", EmptyDict), key,
        IF key = "ph" THEN 700 ELSE IF key = "turbidity" THEN 100 ELSE 2000)

\* generate_fallback_prediction(tank_data, history); ph and turbidity come
\* back in hundredths, temperature in tenths, confidence in hundredths
GenerateFallbackPrediction(tank_data, history) ==
    LET ph        == CurrentReading(tank_data, "ph")
        turbidity == CurrentReading(tank_data, "turbidity")
        temp      == CurrentReading(tank_data, "temperature")
        Trend(key, cur) == TrendRate(history, key, cur)
        ph_trend   == Trend("ph", ph)
        turb_trend == Trend("turbidity", turbidity)
        temp_trend == Trend("temperature", temp)
        Label(trend, threshold) ==
            IF FLt(FAbs(trend), threshold) THEN "stable"
            ELSE IF FGt(trend, FZero) THEN "increasing" ELSE "decreasing"
        Horizon(mult, confidence) ==
            [ph |-> PyRound(FAdd(Reading(ph), FMul(ph_trend, FInt(mult))), 100),
             turbidity |->
                 PyRound(FMax0(FAdd(Reading(turbidity), FMul(turb_trend, FInt(mult)))), 100),
             temperature |->
                 PyRound(FAdd(Reading(temp), FMul(temp_trend, FInt(mult))), 10),
             confidence |-> confidence]
        high == turbidity > 500 \/ ph < 650 \/ ph > 850
    IN  [success |-> TRUE,
         prediction |->
            [predictions |-> ("24h" :> Horizon(1, 70)) @@ ("48h" :> Horizon(2, 50)),
             trend_analysis |->
                [ph_trend |-> Label(ph_trend, FDec(1, 10)),
                 turbidity_trend |-> Label(turb_trend, FDec(2, 10)),
                 temperature_trend |-> Label(temp_trend, FDec(3, 10))],
             risk_level |-> IF high THEN "high" ELSE "low",
             risk_factors |-> IF high THEN <<"Current readings exceed safe thresholds">>
                              ELSE <<>>,
             recommended_actions |-> <<>>,
             government_impact |-> "Fallback prediction - AI unavailable"],
         fallback |-> TRUE]

\* predict_water_quality(tank_data, history)
PredictWaterQuality(tank_data, history, env) ==
    IF ~GetGroqClient(env) THEN GenerateFallbackPrediction(tank_data, history)
    ELSE IF GroqReply(env).ok THEN [success |-> TRUE, prediction |-> GroqReply(env)]
    ELSE GenerateFallbackPrediction(tank_data, history)

RECURSIVE FSum(_, _)
\* sum(values) from the left, starting at acc
FSum(acc, values) ==
    IF values = <<>> THEN acc ELSE FSum(FAdd(acc, Head(values)), Tail(values))

\* overflow_risk_percent scaled by 4 per point over 85
DetectLeakageFallbackRisk4(tank_data, history) ==
    LET current_level == Get(tank_data, "current_level_percent", 50)
    IN  [success |-> TRUE,
         analysis |->
            [anomaly_detected |-> current_level < 30 \/ current_level > 95,
             anomaly_type |-> "none", severity |-> "none", confidence |-> 60,
             details |->
                [estimated_loss_liters_per_day |-> "None",
                 overflow_risk_percent |->
                     IF current_level > 85 THEN (current_level - 85) * 4 ELSE 0,
                 pattern_description |-> "Rule-based analysis - AI unavailable"],
             recommended_actions |-> <<>>,
             government_alert_required |-> current_level < 20,
             impact_assessment |-> "Fallback analysis"],
         fallback |-> TRUE]

\* detect_leakage_fallback(tank_data, history)
DetectLeakageFallback(tank_data, history) ==
    LET current_level == Get(tank_data, "current_level_percent", 50)
        n == Len(history)
        level_changes ==
            IF n >= 2
            THEN [i \in 1..(n - 1) |->
                     FSub(Reading(Get(history[i + 1], "turbidity", 0)),
                          Reading(Get(history[i], "turbidity", 0)))]
            ELSE <<>>
        avg_change ==
            IF level_changes # <<>>
            THEN FDivInt(FSum(FInt(0), level_changes), Len(level_changes))
            ELSE FZero
        anomaly_detected ==
            current_level < 30 \/ current_level > 95 \/ FGt(FAbs(avg_change), FInt(1))
    IN  [success |-> TRUE,
         analysis |->
            [anomaly_detected |-> anomaly_detected,
             anomaly_type |->
                 IF ~anomaly_detected THEN "none"
                 ELSE IF current_level > 95 THEN "overflow"
                 ELSE IF current_level < 30 THEN "leakage"
                 ELSE "unusual_consumption",
             severity |-> IF ~anomaly_detected THEN "none" ELSE "medium",
             confidence |-> 60,
             details |->
                [estimated_loss_liters_per_day |-> "None",
                 overflow_risk_percent |->
                     IF current_level > 85
                     THEN (IF (current_level - 85) * 5 > 0
                           THEN (current_level - 85) * 5 ELSE 0)
                     ELSE 0,
                 pattern_description |-> "Rule-based analysis - AI unavailable"],
             recommended_actions |-> <<>>,
             government_alert_required |-> anomaly_detected /\ current_level < 20,
             impact_assessment |-> "Fallback analysis"],
         fallback |-> TRUE]

\* detect_leakage_overflow(tank_data, history)
DetectLeakageOverflow(tank_data, history, env) ==
    IF ~GetGroqClient(env) THEN DetectLeakageFallback(tank_data, history)
    ELSE IF GroqReply(env).ok THEN [success |-> TRUE, analysis |-> GroqReply(env)]
    ELSE DetectLeakageFallback(tank_data, history)

\* lines 354-365 with the days-since-cleaned thresholds taken inclusive
MaintenanceTierInclusive(turbidity, days_since_cleaned) ==
    IF turbidity > 500 \/ days_since_cleaned >= 45
    THEN [urgency |-> "immediate", days_until |-> 0]
    ELSE IF turbidity > 300 \/ days_since_cleaned >= 35
    THEN [urgency |-> "urgent", days_until |-> 3]
    ELSE IF days_since_cleaned >= 25
    THEN [urgency |-> "soon", days_until |-> 7]
    ELSE [urgency |-> "routine",
          days_until |-> IF 30 - days_since_cleaned > 0 THEN 30 - days_since_cleaned ELSE 0]

\* lines 354-365: urgency and lead; turbidity in hundredths
MaintenanceTier(turbidity, days_since_cleaned) ==
    IF turbidity > 500 \/ days_since_cleaned > 45
    THEN [urgency |-> "immediate", days_until |-> 0]
    ELSE IF turbidity > 300 \/ days_since_cleaned > 35
    THEN [urgency |-> "urgent", days_until |-> 3]
    ELSE IF days_since_cleaned > 25
    THEN [urgency |-> "soon", days_until |-> 7]
    ELSE [urgency |-> "routine",
          days_until |-> IF 30 - days_since_cleaned > 0 THEN 30 - days_since_cleaned ELSE 0]

\* predict_maintenance_fallback(tank_data) on the day td
PredictMaintenanceFallback(tank_data, td) ==
    LET days_since_cleaned == Get(tank_data, "days_since_cleaned", 0)
        turbidity == Get(Get(tank_data, "current_readings", EmptyDict), "turbidity", 0)
        tier == MaintenanceTier(turbidity, days_since_cleaned)
    IN  [success |-> TRUE,
         maintenance |->
            [recommended_cleaning_date |-> Strftime(AddDays(Ord2Ymd(td), tier.days_until)),
             urgency |-> tier.urgency,
             days_until_recommended |-> tier.days_until,
             cleaning_type |-> IF tier.urgency = "immediate" THEN "emergency" ELSE "routine",
             estimated_duration_hours |-> 4,
             resources_needed |-> <<"Cleaning crew", "Water testing kit">>,
             cost_estimate_inr |-> 15000,
             risk_if_delayed |-> IF tier.urgency \in {"immediate", "urgent"}
                                 THEN "high" ELSE "medium",
             reason |-> <<"Based on", days_since_cleaned, "days since last cleaning">>,
             government_compliance |->
                [bis_compliant |-> days_since_cleaned <= 30,
                 jal_jeevan_mission_aligned |-> TRUE]],
         fallback |-> TRUE]

\* predict_maintenance_schedule(tank_data, history)
PredictMaintenanceSchedule(tank_data, history, env, td) ==
    IF ~GetGroqClient(env) THEN PredictMaintenanceFallback(tank_data, td)
    ELSE IF GroqReply(env).ok THEN [success |-> TRUE, maintenance |-> GroqReply(env)]
    ELSE PredictMaintenanceFallback(tank_data, td)

RECURSIVE SumCapacity(_)
\* sum(t.get("capacity_liters", 0) for t in tanks_data)
SumCapacity(tanks_data) ==
    IF tanks_data = <<>> THEN 0
    ELSE Get(Head(tanks_data), "capacity_liters", 0) + SumCapacity(Tail(tanks_data))

\* the weekly total as the week's seven daily figures added up
WeeklyTotalOfDays(avg_daily_consumption) ==
    5 * FTrunc(FMul(avg_daily_consumption, FInt(1)))
        + 2 * FTrunc(FMul(avg_daily_consumption, FDec(85, 100)))

\* line 493: int(avg_daily_consumption * 6.7)
WeeklyTotal(avg_daily_consumption) == FTrunc(FMul(avg_daily_consumption, FDec(67, 10)))

\* forecast_demand_fallback(tanks_data) on the day td
ForecastDemandFallback(tanks_data, td) ==
    LET total_capacity == SumCapacity(tanks_data)
        avg_daily_consumption == FMul(FInt(total_capacity), FDec(15, 100))
    IN  [success |-> TRUE,
         forecast |->
            [daily_forecasts |->
                [i \in 1..7 |->
                    [day |-> i,
                     date |-> Strftime(AddDays(Ord2Ymd(td), i)),
                     predicted_demand_liters |->
                         FTrunc(FMul(avg_daily_consumption,
                                     IF i - 1 < 5 THEN FInt(1) ELSE FDec(85, 100))),
                     peak_hours |-> <<"07:00", "18:00">>,
                     confidence |-> 60]],
             weekly_total_demand_liters |-> WeeklyTotal(avg_daily_consumption),
             average_daily_demand_liters |-> FTrunc(avg_daily_consumption),
             peak_demand_day |-> "Monday",
             low_demand_day |-> "Sunday",
             supply_adequacy |->
                [sufficient |-> TRUE, deficit_liters |-> "None", tanks_at_risk |-> <<>>],
             recommendations |-> <<"Monitor tank levels during peak hours">>,
             government_planning_insights |-> "Fallback forecast - AI unavailable"],
         fallback |-> TRUE]

\* forecast_water_demand(tanks_data)
ForecastWaterDemand(tanks_data, env, td) ==
    IF ~GetGroqClient(env) THEN ForecastDemandFallback(tanks_data, td)
    ELSE IF GroqReply(env).ok THEN [success |-> TRUE, forecast |-> GroqReply(env)]
    ELSE ForecastDemandFallback(tanks_data, td)

\* lines 590 and 596-600 with the filled share in place of the free one
OverflowCapOfLevel(tank) ==
    FDivInt(FInt(Get(tank, "current_level_percent", 0)
                    * Get(tank, "capacity_liters", 0)), 100)

\* lines 590 and 596-600: (100 - level) * capacity / 100 of one tank
OverflowCap(tank) ==
    FDivInt(FInt((100 - Get(tank, "current_level_percent", 0))
                    * Get(tank, "capacity_liters", 0)), 100)

\* rainwater_fallback(tanks_data)
RainwaterFallback(tanks_data) ==
    LET total_overflow ==
            FSum(FInt(0), [i \in 1..Len(tanks_data) |-> OverflowCap(tanks_data[i])])
        big == SelectSeq(tanks_data, LAMBDA t : FGt(OverflowCap(t), FInt(50000)))
        recommended ==
            [i \in 1..Len(big) |->
                [name |-> Get(big[i], "name", "None"),
                 overflow_capacity_liters |-> FTrunc(OverflowCap(big[i])),
                 harvesting_score |->
                     LET sc == FTrunc(FDivInt(OverflowCap(big[i]), 1000))
                     IN  IF sc < 100 THEN sc ELSE 100]]
        atRisk == SelectSeq(tanks_data,
                            LAMBDA t : Get(t, "current_level_percent", 0) > 90)
    IN  [success |-> TRUE,
         harvesting |->
            [harvesting_potential |->
                [total_overflow_capacity_liters |-> FTrunc(total_overflow),
                 recommended_tanks |->
                     SubSeq(recommended, 1, IF Len(recommended) < 5 THEN Len(recommended)
                                            ELSE 5),
                 estimated_monthly_collection_liters |->
                     FTrunc(FMul(total_overflow, FDec(3, 10)))],
             overflow_risk_analysis |->
                [tanks_at_overflow_risk |->
                     [i \in 1..Len(atRisk) |-> Get(atRisk[i], "name", "None")],
                 recommended_diversions |-> <<"Install overflow pipes to secondary storage">>],
             monsoon_readiness |->
                [score |-> 70, gaps |-> <<"Check overflow drainage">>,
                 preparations_needed |-> <<"Clean intake filters">>],
             cost_benefit |->
                [estimated_savings_inr_monthly |-> 50000,
                 implementation_cost_inr |-> 200000, payback_months |-> 4],
             government_scheme_alignment |->
                [jal_shakti_compatible |-> TRUE, swachh_bharat_aligned |-> TRUE,
                 recommendations |-> <<"Apply for Jal Jeevan Mission funding">>]],
         fallback |-> TRUE]

\* predict_rainwater_harvesting(tanks_data)
PredictRainwaterHarvesting(tanks_data, env) ==
    IF ~GetGroqClient(env) THEN RainwaterFallback(tanks_data)
    ELSE IF GroqReply(env).ok THEN [success |-> TRUE, harvesting |-> GroqReply(env)]
    ELSE RainwaterFallback(tanks_data)

----------------------------------------------------------------------------
(* ai_copilot_service: the explanation of an alert *)

\* str.lower() of one word of a message
Lower(w) ==
    IF w = "PH" \/ w = "pH" THEN "ph"
    ELSE IF w = "Turbidity" THEN "turbidity"
    ELSE IF w = "Maintenance" THEN "maintenance"
    ELSE IF w = "Clean" THEN "clean"
    ELSE w

\* keyword in message.lower(); a message is a sequence of words, none of
\* which holds a keyword as a proper part
Mentions(message, keyword) == \E i \in 1..Len(message) : Lower(message[i]) = keyword

\* generate_fallback_explanation(alert, tank_data)
GenerateFallbackExplanation(alert, tank_data) ==
    LET alert_type == Get(alert, "type", "info")
        message    == Get(alert, "message", <<>>)
        readings   == Get(tank_data, "current_readings", EmptyDict)
        causes ==
            (IF Mentions(message, "ph") THEN <<"pH imbalance detected in water">> ELSE <<>>)
            \o (IF Mentions(message, "turbidity")
                THEN <<"Suspended particles in water causing cloudiness">> ELSE <<>>)
            \o (IF Mentions(message, "maintenance") \/ Mentions(message, "clean")
                THEN <<"Tank requires cleaning based on schedule">> ELSE <<>>)
        causes2 == IF causes = <<>>
                   THEN <<"Alert triggered based on monitoring thresholds">> ELSE causes
    IN  [success |-> TRUE,
         explanation |->
            [root_cause_analysis |->
                [primary_cause |-> causes2[1],
                 contributing_factors |-> Tail(causes2),
                 confidence |-> 60],
             severity_assessment |->
                [level |-> alert_type,
                 impact_score |-> IF alert_type = "critical" THEN 8
                                  ELSE IF alert_type = "warning" THEN 5 ELSE 2,
                 affected_population_estimate |-> 1000],
             trend_explanation |-> "Based on rule-based fallback analysis.",
             recommended_actions |-> Len(causes2),
             prevention_measures |-> <<"Regular monitoring", "Scheduled maintenance">>,
             compliance_impact |->
                [bis_violation |-> alert_type = "critical",
                 jjm_compliance |-> alert_type # "critical",
                 reporting_required |-> alert_type = "critical"],
             plain_language_summary |-> message],
         alert |-> alert,
         fallback |-> TRUE]

\* generate_explainable_alert(alert, tank_data, history)
GenerateExplainableAlert(alert, tank_data, history, env) ==
    IF ~GetGroqClient(env) \/ env.reply.raises
    THEN GenerateFallbackExplanation(alert, tank_data)
    ELSE LET raw_text == IF env.reply.choices THEN env.reply.content ELSE <<>>
             t        == Strip(raw_text)
             opens    == {i \in 1..Len(t) : t[i] = "{"}
             closes   == {i \in 1..Len(t) : t[i] = "}"}
             \* find() gives -1, the last character, when there is no "{"
             start    == IF opens = {} THEN Len(t)
                         ELSE CHOOSE i \in opens : \A j \in opens : i <= j
             end      == IF closes = {} THEN 0
                         ELSE CHOOSE i \in closes : \A j \in closes : i >= j
             parsed   == JsonLoads(SubSeq(t, start, end))
         IN  IF raw_text = <<>>
             THEN [success |-> FALSE, error |-> "Empty response from Groq model"]
             ELSE IF parsed.ok
             THEN [success |-> TRUE, explanation |-> parsed, alert |-> alert]
             ELSE GenerateFallbackExplanation(alert, tank_data)

----------------------------------------------------------------------------
(* main.py: the endpoints over the predictors *)

\* lines 230-235, 241-246, 252-257: the tank, 404 when get_single_tank
\* finds none, its history, and the predictor's result as the body
TankEndpoint(op, tank_id, env, Predictor(_, _)) ==
    LET ld    == LoadData(cache, file)
        tanks == Get(ld.data, "tanks", <<>>)
        ti    == FindTank(tanks, tank_id)
        call  == Merge(Call(op, ld), [tank_id |-> tank_id, env |-> env])
    IN  /\ UNCHANGED <<nupd, hist, auth>>
        /\ IF ~ld.ok THEN Raised(op, ld)
           ELSE /\ loaded' = TRUE
                /\ cache' = ld.data
                /\ UNCHANGED <<file, today>>
                /\ resp' =
                     IF ti = 0
                     THEN Merge(call, [code |-> 404, error |-> "Tank not found"])
                     ELSE IF ~DatesParse(tanks[ti])
                     THEN Merge(call, [code |-> 500, error |-> "ValueError"])
                     ELSE Merge(call,
                                [code |-> 200,
                                 body |-> Predictor(SingleTank(tanks[ti], today),
                                                    Get(tanks[ti], "history", <<>>))])

\* GET /api/ai/predict/{tank_id}
ApiPredictWaterQuality(tank_id, env) ==
    TankEndpoint("api_predict_water_quality", tank_id, env,
                 LAMBDA tank, history : PredictWaterQuality(tank, history, env))

\* GET /api/ai/leakage/{tank_id}
ApiDetectLeakage(tank_id, env) ==
    TankEndpoint("api_detect_leakage", tank_id, env,
                 LAMBDA tank, history : DetectLeakageOverflow(tank, history, env))

\* GET /api/ai/maintenance/{tank_id}
ApiPredictMaintenance(tank_id, env) ==
    TankEndpoint("api_predict_maintenance", tank_id, env,
                 LAMBDA tank, history :
                     PredictMaintenanceSchedule(tank, history, env, today))

\* lines 317-318 and 324-325: the fleet list and the predictor's result
FleetEndpoint(op, env, Predictor(_)) ==
    LET ld    == LoadData(cache, file)
        tanks == Get(ld.data, "tanks", <<>>)
        call  == Merge(Call(op, ld), [env |-> env])
    IN  /\ UNCHANGED <<nupd, hist, auth>>
        /\ IF ~ld.ok THEN Raised(op, ld)
           ELSE /\ loaded' = TRUE
                /\ cache' = ld.data
                /\ UNCHANGED <<file, today>>
                /\ resp' =
                     IF \E i \in 1..Len(tanks) : ~DatesParse(tanks[i])
                     THEN Merge(call, [code |-> 500, error |-> "ValueError"])
                     ELSE Merge(call,
                                [code |-> 200,
                                 body |-> Predictor([i \in 1..Len(tanks) |->
                                                        ListedTank(tanks[i], today)])])

\* GET /api/ai/demand-forecast
ApiForecastDemand(env) ==
    FleetEndpoint("api_forecast_demand", env,
                  LAMBDA tanks : ForecastWaterDemand(tanks, env, today))

\* GET /api/ai/rainwater
ApiRainwaterHarvesting(env) ==
    FleetEndpoint("api_rainwater_harvesting", env,
                  LAMBDA tanks : PredictRainwaterHarvesting(tanks, env))

\* next((a for a in alerts if a.get('id') == alert_id), None), 0 for None
FindAlert(alerts, alert_id) ==
    LET hits == {i \in 1..Len(alerts) : Get(alerts[i], "id", "None") = alert_id}
    IN  IF hits = {} THEN 0 ELSE CHOOSE i \in hits : \A j \in hits : i <= j

\* lines 338-341 when the alert's tank_id names no tank: tank or {} and
\* history or [] go to the explanation
ExplainMissingTank(call, alert, env) ==
    Merge(call, [code |-> 200,
                 body |-> GenerateExplainableAlert(alert, EmptyDict, <<>>, env)])

\* GET /api/ai/explain-alert/{alert_id}
ApiExplainAlert(alert_id, env) ==
    LET ld      == LoadData(cache, file)
        alerts  == Get(ld.data, "alerts", <<>>)
        tanks   == Get(ld.data, "tanks", <<>>)
        ai      == FindAlert(alerts, alert_id)
        alert   == alerts[ai]
        tank_id == Get(alert, "tank_id", "")
        ti      == FindTank(tanks, tank_id)
        call    == Merge(Call("api_explain_alert", ld), [alert_id |-> alert_id, env |-> env])
    IN  /\ UNCHANGED <<nupd, hist, auth>>
        /\ IF ~ld.ok THEN Raised("api_explain_alert", ld)
           ELSE /\ loaded' = TRUE
                /\ cache' = ld.data
                /\ UNCHANGED <<file, today>>
                /\ resp' =
                     IF ai = 0
                     THEN Merge(call, [code |-> 404, error |-> "Alert not found"])
                     ELSE IF tank_id = ""
                     THEN Merge(call, [code |-> 200,
                                       body |-> GenerateExplainableAlert(
                                                    alert, EmptyDict, <<>>, env)])
                     ELSE IF ti = 0
                     THEN Merge(ExplainMissingTank(call, alert, env), [tank_id |-> tank_id])
                     ELSE IF ~DatesParse(tanks[ti])
                     THEN Merge(call, [code |-> 500, error |-> "ValueError",
                                       tank_id |-> tank_id])
                     ELSE Merge(call,
                                [code |-> 200, tank_id |-> tank_id,
                                 body |-> GenerateExplainableAlert(
                                              alert, SingleTank(tanks[ti], today),
                                              Get(tanks[ti], "history", <<>>), env)])

----------------------------------------------------------------------------
(* gis_service: the ward aggregation *)

\* int(c * 10) % 10 of a coordinate held in hundredths of a degree
GridDigit(c) == FTrunc(FMul(FDec(c, 100), FInt(10))) % 10

\* line 17: ward_id of a listed tank
WardId(tank) ==
    LET location == Get(tank, "location", EmptyDict)
    IN  "ward_" \o ToString(GridDigit(Get(location, "lat", 0)))
            \o "_" \o ToString(GridDigit(Get(location, "lng", 0)))

\* lines 52-60 with the warning count looked at first
WardHealthWarningFirst(critical_count, warning_count) ==
    IF warning_count > 0 THEN [health_score |-> 60, status |-> "warning"]
    ELSE IF critical_count > 0 THEN [health_score |-> 30, status |-> "critical"]
    ELSE [health_score |-> 90, status |-> "normal"]

\* lines 52-60: health_score and status of a ward from its counts
WardHealth(critical_count, warning_count) ==
    IF critical_count > 0 THEN [health_score |-> 30, status |-> "critical"]
    ELSE IF warning_count > 0 THEN [health_score |-> 60, status |-> "warning"]
    ELSE [health_score |-> 90, status |-> "normal"]

\* lines 47-96: the feature of one ward from the tanks that fell in it,
\* in the order of the fleet list
WardFeature(ward_id, members) ==
    LET num_tanks == Len(members)
        Count(st) == Cardinality({i \in 1..num_tanks : members[i].status = st})
        critical_count == Count("critical")
        warning_count  == Count("warning")
        sum_ph == FSum(FInt(0),
                       [i \in 1..num_tanks |->
                           Reading(Get(Get(members[i], "current_readings", EmptyDict),
                                       "ph", 700))])
        sum_turbidity == FSum(FInt(0),
                       [i \in 1..num_tanks |->
                           Reading(Get(Get(members[i], "current_readings", EmptyDict),
                                       "turbidity", 0))])
        location == Get(members[1], "location", EmptyDict)
        lat    == FDec(Get(location, "lat", 0), 100)
        lng    == FDec(Get(location, "lng", 0), 100)
        offset == FDec(2, 100)
    IN  [type |-> "Feature",
         properties |->
            [ward_id |-> ward_id,
             ward_name |-> "Ward " \o ToString(GridDigit(Get(location, "lat", 0)))
                               \o "-" \o ToString(GridDigit(Get(location, "lng", 0))),
             tank_count |-> num_tanks,
             total_capacity_liters |-> SumCapacity(members),
             avg_ph |-> PyRound(FDivInt(sum_ph, num_tanks), 100),
             avg_turbidity |-> PyRound(FDivInt(sum_turbidity, num_tanks), 100),
             health_score |-> WardHealth(critical_count, warning_count).health_score,
             status |-> WardHealth(critical_count, warning_count).status,
             critical_tanks |-> critical_count,
             warning_tanks |-> warning_count,
             normal_tanks |-> num_tanks - critical_count - warning_count,
             tanks |-> [i \in 1..num_tanks |->
                          [id |-> members[i].id, name |-> members[i].name,
                           status |-> members[i].status]]],
         geometry |->
            [type |-> "Polygon",
             coordinates |->
                <<<<FSub(lng, offset), FSub(lat, offset)>>,
                  <<FAdd(lng, offset), FSub(lat, offset)>>,
                  <<FAdd(lng, offset), FAdd(lat, offset)>>,
                  <<FSub(lng, offset), FAdd(lat, offset)>>,
                  <<FSub(lng, offset), FSub(lat, offset)>>>>]]

\* a feature made at every tank of the list rather than at the first tank
\* of each ward
WardGeojsonPerTank(tanks) ==
    [type |-> "FeatureCollection",
     features |->
        [k \in 1..Len(tanks) |->
            WardFeature(WardId(tanks[k]),
                        SelectSeq(tanks, LAMBDA t : WardId(t) = WardId(tanks[k])))]]

\* lines 9-101 over the fleet list: one feature per ward, wards in the
\* order their first tank comes in the list
WardGeojson(tanks) ==
    LET first == SelectSeq([i \in 1..Len(tanks) |-> i],
                           LAMBDA i : \A j \in 1..(i - 1) : WardId(tanks[j]) # WardId(tanks[i]))
    IN  [type |-> "FeatureCollection",
         features |->
            [k \in 1..Len(first) |->
                WardFeature(WardId(tanks[first[k]]),
                            SelectSeq(tanks,
                                      LAMBDA t : WardId(t) = WardId(tanks[first[k]])))]]

\* get_ward_geojson(), GET /api/gis/wards
GetWardGeojson ==
    LET ld    == LoadData(cache, file)
        tanks == Get(ld.data, "tanks", <<>>)
        call  == Call("get_ward_geojson", ld)
    IN  /\ UNCHANGED <<nupd, hist, auth>>
        /\ IF ~ld.ok THEN Raised("get_ward_geojson", ld)
           ELSE /\ loaded' = TRUE
                /\ cache' = ld.data
                /\ UNCHANGED <<file, today>>
                /\ resp' =
                     IF \E i \in 1..Len(tanks) : ~DatesParse(tanks[i])
                     THEN Merge(call, [code |-> 500, error |-> "ValueError"])
                     ELSE Merge(call,
                                [code |-> 200,
                                 body |-> WardGeojson([i \in 1..Len(tanks) |->
                                                         ListedTank(tanks[i], today)])])

----------------------------------------------------------------------------
(* The environment of a call to a predictor *)

\* what chat.completions.create does: raise, answer without choices, or
\* answer with a text
NoReply == [raises |-> TRUE, choices |-> FALSE, content |-> <<>>]
NoChoices == [raises |-> FALSE, choices |-> FALSE, content |-> <<>>]
Text(content) == [raises |-> FALSE, choices |-> TRUE, content |-> content]

\* an object alone; an object inside prose; an object of no members
JsonOnly == <<"{", "k", "}">>
Fenced   == <<" ", "x", " ", "{", "k", ",", " ", "k", "}", " ", "x", " ">>
EmptyObj == <<"{", " ", "}">>
\* no text; prose; white space; an object cut short; braces the wrong way
\* round; braces around what is no object; a comma too many
Prose    == <<"x", " ", "x">>
Blank    == <<" ", " ">>
Unclosed == <<"x", "{", "k", ",">>
Reversed == <<"}", "x", "{">>
Garbled  == <<"{", "x", "}">>
Trailing == <<"{", "k", ",", "}">>

ReplyTexts == {<<>>, JsonOnly, Fenced, EmptyObj, Prose, Blank, Unclosed, Reversed,
               Garbled, Trailing}

\* GROQ_API_KEY unset
NoClient == [key |-> FALSE, reply |-> NoReply]

Envs ==
    {NoClient} \cup {[key |-> TRUE, reply |-> r] :
                       r \in {NoReply, NoChoices} \cup {Text(c) : c \in ReplyTexts}}

----------------------------------------------------------------------------
(* The predictors behind their endpoints, with and without the model *)

History2 == <<Entry(700, 100, 2000), Entry(730, 250, 2100)>>

PredictDocs ==
    {[tanks |-> <<Merge(Tank1, [history |-> History2]), Tank2>>, alerts |-> <<>>,
      maintenance_schedule |-> <<Sched1, Sched2>>],
     DocFull, DocNoTanks}

InitPredict ==
    /\ cache = EmptyDict
    /\ file \in {[valid |-> TRUE, doc |-> d] : d \in PredictDocs}
    /\ today = Today0
    /\ resp = BaseResp
    /\ loaded = FALSE
    /\ nupd = 0
    /\ doc0 = file.doc
    /\ done = NotDone
    /\ wfail = FALSE
    /\ NoSessions

NextPredict ==
    \/ \E t \in {"T1", "T3"}, env \in Envs : ApiPredictWaterQuality(t, env)
    \/ \E t \in {"T1", "T3"}, env \in Envs : ApiDetectLeakage(t, env)
    \/ \E t \in {"T1", "T3"}, env \in Envs : ApiPredictMaintenance(t, env)
    \/ \E env \in Envs : ApiForecastDemand(env)
    \/ \E env \in Envs : ApiRainwaterHarvesting(env)

SpecPredict == InitPredict /\ [][NextPredict]_vars

----------------------------------------------------------------------------
(* Every consumer of a tank lookup *)

Alert(id, type, message) == [id |-> id, type |-> type, message |-> message]

\* A1 is about T1, A2 about T3, A3 about no tank
Alerts ==
    <<Merge(Alert("A1", "critical", <<"PH", "out", "of", "range">>), [tank_id |-> "T1"]),
      Merge(Alert("A2", "warning", <<"Turbidity", "high">>), [tank_id |-> "T3"]),
      Alert("A3", "info", <<"Maintenance", "due">>)>>

AlertIds == {"A1", "A2", "A3", "A4"}

LookupDocs ==
    {Merge(DocFull, [alerts |-> Alerts]),
     Merge(DocNoTanks, [alerts |-> Alerts]),
     [tanks |-> <<Merge(Tank1, [history |-> History2])>>, alerts |-> <<>>,
      maintenance_schedule |-> <<Sched1>>]}

LookupEnvs == {NoClient, [key |-> TRUE, reply |-> Text(JsonOnly)],
               [key |-> TRUE, reply |-> Text(<<>>)]}

InitLookup ==
    /\ cache = EmptyDict
    /\ file \in {[valid |-> TRUE, doc |-> d] : d \in LookupDocs}
    /\ today = Today0
    /\ resp = BaseResp
    /\ loaded = FALSE
    /\ nupd = 0
    /\ doc0 = file.doc
    /\ done = NotDone
    /\ wfail = FALSE
    /\ NoSessions

NextLookup ==
    \/ \E t \in TankIds : GetSingleTank(t)
    \/ \E t \in TankIds : GetTankHistory(t)
    \/ \E t \in TankIds : GetTrendAnalysis(t)
    \/ \E t \in TankIds, env \in LookupEnvs : ApiPredictWaterQuality(t, env)
    \/ \E t \in TankIds, env \in LookupEnvs : ApiDetectLeakage(t, env)
    \/ \E t \in TankIds, env \in LookupEnvs : ApiPredictMaintenance(t, env)
    \/ \E t \in {"T1", "T3"} : UpdateMaintenance(t, D_2025_06_01, "", "ok")
    \/ \E a \in AlertIds, env \in LookupEnvs : ApiExplainAlert(a, env)

SpecLookup == InitLookup /\ [][NextLookup]_vars

----------------------------------------------------------------------------
(* The fallback predictors over levels, histories, ages and fleets *)

\* a tank of the fleet by what the fallbacks read of it; lat and lng in
\* hundredths of a degree
ApiTank(id, level, capacity, lat, lng) ==
    Merge(Tank1, [id |-> id, name |-> id, current_level_percent |-> level,
                  capacity_liters |-> capacity, location |-> [lat |-> lat, lng |-> lng]])

Fleet(tanks) == [tanks |-> tanks, alerts |-> <<>>, maintenance_schedule |-> <<Sched1>>]

Levels == 0..100

LevelDocs == {Fleet(<<ApiTank("T1", l, 100000, 1234, 5678)>>) : l \in Levels}

\* histories of up to three entries: rising, rising by exactly 1 per step,
\* falling below zero, flat, and uneven
FallbackHistories ==
    {<<>>,
     <<Entry(700, 100, 2000)>>,
     <<Entry(700, 100, 2000), Entry(730, 250, 2100)>>,
     <<Entry(710, 120, 1501), Entry(740, 220, 1601)>>,
     <<Entry(740, 300, 2500), Entry(700, 100, 2000)>>,
     <<Entry(700, 100, 2000), Entry(700, 100, 2000)>>,
     <<Entry(700, 100, 2000), Entry(701, 90, 2033)>>,
     <<Entry(700, 500, 2000), Entry(1400, 900, 4000), Entry(710, 100, 2100)>>,
     <<Entry(650, 100, 1800), Entry(1400, 900, 4000), Entry(700, 350, 2000)>>,
     <<Entry(700, 100, 2000), Entry(1400, 900, 4000), Entry(705, 300, 2010)>>}

\* current pH, turbidity and temperature, in hundredths
CurrentReadings == {<<700, 100, 2000>>, <<725, 40, 2255>>}

HistoryLevels == {10, 50, 97}

HistoryDocs ==
    {Fleet(<<Merge(ApiTank("T1", l, 100000, 1234, 5678),
                   [history |-> h,
                    current_readings |->
                        [ph |-> c[1], turbidity |-> c[2], temperature |-> c[3]]])>>) :
        l \in HistoryLevels, h \in FallbackHistories, c \in CurrentReadings}

\* days since 2025-05-20, on both sides of every tier
CleanedAges == {-5, 0, 10, 25, 26, 30, 31, 35, 36, 45, 46}
MaintDays == {Ymd2Ord(Strptime(D_2025_05_20)) + a : a \in CleanedAges}
MaintTurbidities == {0, 300, 301, 500, 501}
MaintDocs ==
    {Fleet(<<Tank("T1", D_2025_05_20, D_2025_06_19, 700, tu)>>) : tu \in MaintTurbidities}

\* capacities of the tanks of a fleet, in litres
Capacities ==
    {<<>>, <<10>>, <<120>>, <<1000>>, <<100000>>, <<123457>>, <<120, 1000>>,
     <<333, 334>>, <<50000, 75000, 123457>>, <<200000, 150000>>}

\* latitude and longitude of two tanks, in hundredths of a degree
CoordPairs ==
    {<<1234, 5678, 1239, 5679>>, <<1234, 5678, 1240, 5678>>, <<1230, 5670, 1239, 5679>>,
     <<-1240, 5678, -1239, 5678>>, <<-1234, 5678, -1231, 5678>>,
     <<1234, -5678, 1234, -5671>>, <<5, 5, -5, -5>>, <<0, 0, 9, 9>>,
     <<-1234, -5678, 1234, 5678>>}

FleetDocs ==
    {Fleet([i \in 1..Len(cs) |->
              ApiTank(<<"T1", "T2", "T3">>[i], <<50, 95, 20>>[i], cs[i], 1234, 5678)]) :
        cs \in Capacities}
    \cup {Fleet(<<ApiTank("T1", 50, 100000, p[1], p[2]),
                  ApiTank("T2", 50, 100000, p[3], p[4])>>) : p \in CoordPairs}

InitFallback ==
    /\ cache = EmptyDict
    /\ \/ /\ file \in {[valid |-> TRUE, doc |-> d] :
                          d \in LevelDocs \cup HistoryDocs \cup FleetDocs}
          /\ today = Today0
       \/ /\ file \in {[valid |-> TRUE, doc |-> d] : d \in MaintDocs}
          /\ today \in MaintDays
    /\ resp = BaseResp
    /\ loaded = FALSE
    /\ nupd = 0
    /\ doc0 = file.doc
    /\ done = NotDone
    /\ wfail = FALSE
    /\ NoSessions

NextFallback ==
    \/ ApiPredictWaterQuality("T1", NoClient)
    \/ ApiDetectLeakage("T1", NoClient)
    \/ ApiPredictMaintenance("T1", NoClient)
    \/ ApiForecastDemand(NoClient)
    \/ ApiRainwaterHarvesting(NoClient)
    \/ GetWardGeojson

SpecFallback == InitFallback /\ [][NextFallback]_vars

----------------------------------------------------------------------------
(* analytics_service: the fleet rollup; tank_service: the fleet summary *)

\* analyze_water_quality(tank); readings in hundredths
AnalyzeWaterQuality(tank) ==
    LET readings    == Get(tank, "current_readings", EmptyDict)
        ph          == Get(readings, "ph", 700)
        turbidity   == Get(readings, "turbidity", 0)
        temperature == Get(readings, "temperature", 2000)
        issues ==
            (IF ph < 650 THEN <<<<"pH too low", ph>>>>
             ELSE IF ph > 850 THEN <<<<"pH too high", ph>>>> ELSE <<>>)
            \o (IF turbidity > 500 THEN <<<<"High turbidity", turbidity>>>>
                ELSE IF turbidity > 300 THEN <<<<"Elevated turbidity", turbidity>>>>
                ELSE <<>>)
            \o (IF temperature > 2500 THEN <<<<"Temperature elevated", temperature>>>>
                ELSE <<>>)
        recommendations ==
            (IF ph < 650 THEN <<"Add pH increaser (sodium carbonate)">>
             ELSE IF ph > 850 THEN <<"Add pH decreaser (sodium bisulfate)">> ELSE <<>>)
            \o (IF turbidity > 500
                THEN <<"Schedule immediate tank cleaning", "Check filtration system">>
                ELSE IF turbidity > 300 THEN <<"Monitor turbidity levels closely">>
                ELSE <<>>)
            \o (IF temperature > 2500 THEN <<"Check cooling systems">> ELSE <<>>)
    IN  [tank_id |-> tank.id, tank_name |-> tank.name,
         issues |-> issues, recommendations |-> recommendations,
         risk_level |-> IF Len(issues) >= 2 THEN "critical"
                        ELSE IF Len(issues) = 1 THEN "warning" ELSE "normal"]

RECURSIVE SumLevel(_)
\* sum(t['current_level_percent'] for t in tanks)
SumLevel(tanks) ==
    IF tanks = <<>> THEN 0
    ELSE Head(tanks).current_level_percent + SumLevel(Tail(tanks))

\* round(sum(values) / len(values), digits) if values else 0, in units of
\* 1/scale; the values are readings in hundredths
MeanReading(tanks, key, scale) ==
    IF tanks = <<>> THEN 0
    ELSE PyRound(FDivInt(FSum(FInt(0),
                              [i \in 1..Len(tanks) |->
                                  Reading(tanks[i].current_readings[key])]),
                         Len(tanks)), scale)

\* lines 43-71 of get_system_analytics over the tanks and alerts of the store
SystemAnalytics(tanks, alerts) ==
    LET critical_tanks ==
            SelectSeq(tanks, LAMBDA t : AnalyzeWaterQuality(t).risk_level = "critical")
        warning_tanks ==
            SelectSeq(tanks, LAMBDA t : AnalyzeWaterQuality(t).risk_level = "warning")
        unacknowledged ==
            SelectSeq(alerts, LAMBDA a : ~Get(a, "acknowledged", FALSE))
        Brief(ts) == [i \in 1..Len(ts) |-> [id |-> ts[i].id, name |-> ts[i].name]]
    IN  [total_tanks |-> Len(tanks),
         total_capacity_liters |-> SumCapacity(tanks),
         average_level_percent |->
             IF tanks = <<>> THEN 0
             ELSE PyRound(FDivInt(FInt(SumLevel(tanks)), Len(tanks)), 10),
         average_ph |-> MeanReading(tanks, "ph", 100),
         average_turbidity |-> MeanReading(tanks, "turbidity", 100),
         average_temperature |-> MeanReading(tanks, "temperature", 10),
         critical_count |-> Len(critical_tanks),
         warning_count |-> Len(warning_tanks),
         normal_count |-> Len(tanks) - Len(critical_tanks) - Len(warning_tanks),
         active_alerts |-> Len(unacknowledged),
         critical_tanks |-> Brief(critical_tanks),
         warning_tanks |-> Brief(warning_tanks)]

\* get_system_analytics(), GET /api/analytics
GetSystemAnalytics ==
    LET ld    == LoadData(cache, file)
        call  == Call("get_system_analytics", ld)
    IN  /\ UNCHANGED <<nupd, hist, auth>>
        /\ IF ~ld.ok THEN Raised("get_system_analytics", ld)
           ELSE /\ loaded' = TRUE
                /\ cache' = ld.data
                /\ UNCHANGED <<file, today>>
                /\ resp' = Merge(call,
                                 [code |-> 200,
                                  body |-> SystemAnalytics(Get(ld.data, "tanks", <<>>),
                                                           Get(ld.data, "alerts", <<>>))])

\* lines 82-95 of get_tanks_summary over the fleet list
TanksSummary(listed) ==
    LET Count(st) == Cardinality({i \in 1..Len(listed) : listed[i].status = st})
    IN  [total |-> Len(listed),
         normal |-> Count("normal"),
         warning |-> Count("warning"),
         critical |-> Count("critical"),
         avg_level |-> IF Len(listed) > 0
                       THEN FDivInt(FInt(SumLevel(listed)), Len(listed)) ELSE FZero]

\* get_tanks_summary()
GetTanksSummary ==
    LET ld    == LoadData(cache, file)
        tanks == Get(ld.data, "tanks", <<>>)
        call  == Call("get_tanks_summary", ld)
    IN  /\ UNCHANGED <<nupd, hist, auth>>
        /\ IF ~ld.ok THEN Raised("get_tanks_summary", ld)
           ELSE /\ loaded' = TRUE
                /\ cache' = ld.data
                /\ UNCHANGED <<file, today>>
                /\ resp' =
                     IF \E i \in 1..Len(tanks) : ~DatesParse(tanks[i])
                     THEN Merge(call, [code |-> 500, error |-> "ValueError"])
                     ELSE Merge(call,
                                [code |-> 200,
                                 body |-> TanksSummary([i \in 1..Len(tanks) |->
                                                          ListedTank(tanks[i], today)])])

----------------------------------------------------------------------------
(* Fleets of tanks of every health, spread over wards, and fleets by overflow *)

\* pH, turbidity, temperature (hundredths) and the day of the last cleaning:
\* sound; turbid; very turbid; cleaned 78 days ago; warm with raised
\* turbidity
Kinds ==
    {<<700, 100, 2000, D_2025_05_20>>, <<700, 600, 2000, D_2025_05_20>>,
     <<700, 800, 2000, D_2025_05_20>>, <<700, 100, 2000, D_2025_04_01>>,
     <<700, 400, 2600, D_2025_05_20>>}

\* latitudes of three tanks, in hundredths of a degree: one ward; the first
\* two together; the first and the last together; three wards
Placements ==
    {<<1234, 1239, 1231>>, <<1234, 1239, 1251>>, <<1234, 1251, 1239>>,
     <<1234, 1251, 1271>>}

KindTank(id, kind, lat) ==
    Merge(Tank(id, kind[4], D_2025_06_19, kind[1], kind[2]),
          [current_readings |-> [ph |-> kind[1], turbidity |-> kind[2],
                                 temperature |-> kind[3]],
           location |-> [lat |-> lat, lng |-> 5678]])

HealthDocs ==
    {Fleet(<<KindTank("T1", k1, p[1]), KindTank("T2", k2, p[2]),
             KindTank("T3", k3, p[3])>>) :
        k1 \in Kinds, k2 \in Kinds, k3 \in Kinds, p \in Placements}

\* level (percent) and capacity (litres) of a tank: overflow capacity on both
\* sides of 50,000, with and without a fraction, and over 100,000
Fillings ==
    {<<5, 123457>>, <<40, 100000>>, <<50, 100000>>, <<49, 100000>>, <<0, 50001>>,
     <<0, 99999>>, <<0, 150500>>, <<100, 100000>>, <<33, 75757>>, <<1, 75500>>}

FillDocs ==
    {Fleet(<<ApiTank("T1", f[1], f[2], 1234, 5678)>>) : f \in Fillings}
    \cup {Fleet(<<ApiTank("T1", f[1], f[2], 1234, 5678),
                  ApiTank("T2", 33, 75757, 1234, 5678)>>) : f \in Fillings}

\* seven tanks of which all but the third can take more than 50,000 litres,
\* and the same fleet without its last two tanks
SevenTanks ==
    <<ApiTank("T1", 40, 100000, 1234, 5678), ApiTank("T2", 0, 60000, 1234, 5678),
      ApiTank("T3", 95, 100000, 1234, 5678), ApiTank("T4", 20, 200000, 1234, 5678),
      ApiTank("T5", 10, 100000, 1251, 5678), ApiTank("T6", 0, 51000, 1251, 5678),
      ApiTank("T7", 30, 100000, 1271, 5678)>>

LargeDocs == {Fleet(SevenTanks), Fleet(SubSeq(SevenTanks, 1, 5)), Fleet(<<>>)}

InitFleet ==
    /\ cache = EmptyDict
    /\ file \in {[valid |-> TRUE, doc |-> d] : d \in HealthDocs \cup FillDocs \cup LargeDocs}
    /\ today = Today0
    /\ resp = BaseResp
    /\ loaded = FALSE
    /\ nupd = 0
    /\ doc0 = file.doc
    /\ done = NotDone
    /\ wfail = FALSE
    /\ NoSessions

NextFleet ==
    \/ GetWardGeojson
    \/ ApiRainwaterHarvesting(NoClient)
    \/ GetSystemAnalytics
    \/ GetTanksSummary
    \/ GetAllTanksWithStatus

SpecFleet == InitFleet /\ [][NextFleet]_vars

----------------------------------------------------------------------------
(* The fallback predictors on records with optional fields missing *)

\* the dict d with only the keys in keys
Restrict(d, keys) == [k \in DOMAIN d \cap keys |-> d[k]]

FullReadings == [ph |-> 725, turbidity |-> 450, temperature |-> 2255]

FullTank ==
    [id |-> "T1", name |-> "T1", current_level_percent |-> 97,
     capacity_liters |-> 100000, days_since_cleaned |-> 40,
     current_readings |-> FullReadings]

OptionalFields ==
    {"current_readings", "current_level_percent", "capacity_liters", "days_since_cleaned"}
ReadingFields == {"ph", "turbidity", "temperature"}

\* the tank without some of its optional fields, or without some readings
PartialTanks ==
    {Restrict(FullTank, {"id", "name"} \cup keep) : keep \in SUBSET OptionalFields}
    \cup {Merge(FullTank, [current_readings |-> Restrict(FullReadings, keep)]) :
             keep \in SUBSET ReadingFields}

\* an entry whole, without one reading, and without any
EntryShapes == {ReadingFields, {"turbidity", "temperature"}, {"ph", "temperature"},
                {"ph", "turbidity"}, {}}

PartialHistories ==
    {<<>>, <<Entry(710, 120, 1900)>>}
    \cup {<<Restrict(Entry(710, 120, 1900), {"date"} \cup k1),
            Restrict(Entry(740, 320, 2100), {"date"} \cup k2)>> :
             k1 \in EntryShapes, k2 \in EntryShapes}

InitDefaults ==
    /\ cache = EmptyDict
    /\ file = [valid |-> TRUE, doc |-> DocNoTanks]
    /\ today = Today0
    /\ resp \in {Merge(BaseResp, [args |-> [tank_data |-> t, history |-> h]]) :
                    t \in PartialTanks, h \in PartialHistories}
    /\ loaded = FALSE
    /\ nupd = 0
    /\ doc0 = file.doc
    /\ done = NotDone
    /\ wfail = FALSE
    /\ NoSessions

\* a fallback called on the arguments drawn for the run
Applied(op, result) ==
    /\ resp' = Merge(BaseResp, [op |-> op, args |-> resp.args, code |-> 200,
                                body |-> result, at |-> today])
    /\ UNCHANGED <<cache, file, today, loaded, nupd, hist, auth>>

ApplyGenerateFallbackPrediction ==
    Applied("generate_fallback_prediction",
            GenerateFallbackPrediction(resp.args.tank_data, resp.args.history))

ApplyDetectLeakageFallback ==
    Applied("detect_leakage_fallback",
            DetectLeakageFallback(resp.args.tank_data, resp.args.history))

ApplyPredictMaintenanceFallback ==
    Applied("predict_maintenance_fallback",
            PredictMaintenanceFallback(resp.args.tank_data, today))

\* the fleet is the drawn tank and a whole one
ApplyForecastDemandFallback ==
    Applied("forecast_demand_fallback",
            ForecastDemandFallback(<<resp.args.tank_data, FullTank>>, today))

ApplyRainwaterFallback ==
    Applied("rainwater_fallback", RainwaterFallback(<<resp.args.tank_data, FullTank>>))

NextDefaults ==
    \/ ApplyGenerateFallbackPrediction
    \/ ApplyDetectLeakageFallback
    \/ ApplyPredictMaintenanceFallback
    \/ ApplyForecastDemandFallback
    \/ ApplyRainwaterFallback

SpecDefaults == InitDefaults /\ [][NextDefaults]_vars

----------------------------------------------------------------------------
(* Cleaning dates and reads: updates of a monthly, a weekly and an         *)
(* interval-less schedule entry, read back while the date advances          *)

IntervalDocs == {DocFull, DocNoSched}
IntervalDates == {D_2025_06_01, D_2025_6_1, D_2025_02_30}

InitInterval ==
    /\ cache = EmptyDict
    /\ file \in {[valid |-> TRUE, doc |-> d] : d \in IntervalDocs}
    /\ today \in StartDays
    /\ resp = BaseResp
    /\ loaded = FALSE
    /\ nupd = 0
    /\ doc0 = file.doc
    /\ done = NotDone
    /\ wfail = FALSE
    /\ NoSessions

NextInterval ==
    \/ \E t \in {"T1", "T2"}, d \in IntervalDates, io \in WriteOutcomes :
          UpdateMaintenance(t, d, "", io)
    \/ \E t \in {"T1", "T2"} : GetSingleTank(t)
    \/ ReloadData
    \/ Tick

SpecInterval == InitInterval /\ [][NextInterval]_vars

----------------------------------------------------------------------------
(* auth_service: session tokens *)

\* line 28: timedelta(hours=24)
TokenHours == 24

\* hours between two looks at the clock, and how many times it moves
ClockStep == 12
MaxAdvances == 3
\* successful logins in a run
MaxSessions == 2

\* secrets.token_hex(32): 256 random bits, a value no earlier call returned
TokenName(i) == "tok" \o ToString(i)
Tokens == {TokenName(i) : i \in 1..MaxSessions}

\* the token of a request: one that was issued, or Query("")
TokenInputs == Tokens \cup {""}
Credentials == {<<"admin", "pw1">>, <<"admin", "pw2">>, <<"operator", "pw2">>}
UserFiles == {[exists |-> TRUE, users |-> UserList], [exists |-> FALSE, users |-> <<>>]}

\* load_users(): the list in users.json, [] when the file is not there
LoadUsers(u) == IF u.exists THEN u.users ELSE <<>>

\* lines 20-21: the first user with this username and password, 0 for none
FindUser(us, username, password) ==
    LET hits == {i \in 1..Len(us) :
                    us[i].username = username /\ us[i].password = password}
    IN  IF hits = {} THEN 0 ELSE CHOOSE i \in hits : \A j \in hits : i <= j

\* what a call of auth_service records: its name, its token, datetime.now()
AuthCall(op, token) == Merge(BaseResp, [op |-> op, token |-> token, now |-> clock])

\* the table with an expired entry left in it
TableAfterExpiryKept(table, token) == table

\* line 49: del active_tokens[token]
TableAfterExpiry(table, token) == Restrict(table, DOMAIN table \ {token})

\* authenticate_user(username, password) behind POST /api/auth/login
AuthenticateUser(username, password) ==
    LET us   == LoadUsers(users)
        ui   == FindUser(us, username, password)
        call == Merge(AuthCall("authenticate_user", ""), [username |-> username])
    IN  /\ UNCHANGED <<cache, file, today, loaded, nupd, hist, users, clock, revoked>>
        /\ IF ui = 0
           THEN /\ resp' = Merge(call, [code |-> 401,
                                        error |-> "Invalid username or password",
                                        body |-> [success |-> FALSE]])
                /\ UNCHANGED <<active_tokens, issued>>
           ELSE \E token \in Tokens \ DOMAIN issued :
                   /\ active_tokens' =
                        Merge(active_tokens,
                              token :> [user_id |-> us[ui].id, username |-> us[ui].username,
                                        name |-> us[ui].name, role |-> us[ui].role,
                                        expires |-> clock + TokenHours])
                   /\ issued' = Merge(issued, token :> clock)
                   /\ resp' = Merge(call,
                                    [code |-> 200, token |-> token,
                                     body |-> [success |-> TRUE, token |-> token,
                                               user |-> [id |-> us[ui].id,
                                                         username |-> us[ui].username,
                                                         name |-> us[ui].name,
                                                         role |-> us[ui].role]]])

\* validate_token(token) behind GET /api/auth/validate; isoformat and
\* fromisoformat give back the datetime that was stored
ValidateToken(token) ==
    LET call == Merge(AuthCall("validate_token", token), [code |-> 200])
    IN  /\ UNCHANGED <<cache, file, today, loaded, nupd, hist, users, clock, issued>>
        /\ IF token \in DOMAIN active_tokens
           THEN IF clock < active_tokens[token].expires
                THEN /\ resp' = Merge(call, [body |-> [valid |-> TRUE,
                                                       user |-> active_tokens[token]]])
                     /\ UNCHANGED <<active_tokens, revoked>>
                ELSE /\ active_tokens' = TableAfterExpiry(active_tokens, token)
                     /\ revoked' = revoked \cup {token}
                     /\ resp' = Merge(call, [body |-> [valid |-> FALSE]])
           ELSE /\ resp' = Merge(call, [body |-> [valid |-> FALSE]])
                /\ UNCHANGED <<active_tokens, revoked>>

\* logout(token) behind POST /api/auth/logout
Logout(token) ==
    LET call == Merge(AuthCall("logout", token), [code |-> 200])
    IN  /\ UNCHANGED <<cache, file, today, loaded, nupd, hist, users, clock, issued>>
        /\ IF token \in DOMAIN active_tokens
           THEN /\ active_tokens' = Restrict(active_tokens, DOMAIN active_tokens \ {token})
                /\ revoked' = revoked \cup {token}
                /\ resp' = Merge(call, [body |-> [success |-> TRUE]])
           ELSE /\ resp' = Merge(call, [body |-> [success |-> FALSE]])
                /\ UNCHANGED <<active_tokens, revoked>>

\* time passes
Advance ==
    /\ clock < MaxAdvances * ClockStep
    /\ clock' = clock + ClockStep
    /\ UNCHANGED <<cache, file, today, resp, loaded, nupd, hist,
                   users, active_tokens, issued, revoked>>

InitAuth ==
    /\ cache = EmptyDict
    /\ file = [valid |-> TRUE, doc |-> DocFull]
    /\ today = Today0
    /\ resp = BaseResp
    /\ loaded = FALSE
    /\ nupd = 0
    /\ doc0 = file.doc
    /\ done = NotDone
    /\ wfail = FALSE
    /\ users \in UserFiles
    /\ active_tokens = EmptyDict
    /\ clock = 0
    /\ issued = EmptyDict
    /\ revoked = {}

NextAuth ==
    \/ \E c \in Credentials : AuthenticateUser(c[1], c[2])
    \/ \E t \in TokenInputs : ValidateToken(t)
    \/ \E t \in TokenInputs : Logout(t)
    \/ Advance

SpecAuth == InitAuth /\ [][NextAuth]_vars

----------------------------------------------------------------------------
(* What the claims speak of *)

\* what a reader gets from load_data() in this state
Visible == LoadData(cache, file)

\* where the document holds a tank, a schedule entry, for the id t
TankAt(doc, t) ==
    {i \in 1..Len(Get(doc, "tanks", <<>>)) : Get(doc.tanks[i], "id", "") = t}
SchedAt(doc, t) ==
    {i \in 1..Len(Get(doc, "maintenance_schedule", <<>>)) :
        Get(doc.maintenance_schedule[i], "tank_id", "") = t}
HasTank(doc, t) == TankAt(doc, t) # {}
HasSched(doc, t) == SchedAt(doc, t) # {}
TankOf(doc, t) ==
    doc.tanks[CHOOSE i \in TankAt(doc, t) : \A j \in TankAt(doc, t) : i <= j]
SchedOf(doc, t) ==
    doc.maintenance_schedule[CHOOSE i \in SchedAt(doc, t) : \A j \in SchedAt(doc, t) : i <= j]

\* the four maintenance dates of tank t: the schedule entry's pair, the tank's pair
Quad(doc, t) ==
    <<SchedOf(doc, t).last_cleaned, SchedOf(doc, t).next_scheduled,
      TankOf(doc, t).last_cleaned, TankOf(doc, t).next_maintenance>>

\* cleaning_interval_days of t's entry, 30 when the entry has none
IntervalOf(doc, t) == Get(SchedOf(doc, t), "cleaning_interval_days", 30)

ValidInputs == {d \in DateInputs : StrptimeOk(d)}

\* the four dates once an update to cleaned date d is complete
FullQuad(d, interval) ==
    LET nx == Strftime(Ord2Ymd(Ymd2Ord(Strptime(d)) + interval))
    IN  <<d, nx, d, nx>>

Readers == {"load_data", "get_tanks", "get_tank_by_id", "get_maintenance_schedule"}

\* C1: in every state a reader can observe, the schedule entry and the tank
\* of each tank are both as they were when the process started or both fully
\* updated to one cleaned date: never a mix of the two.
C1_ReaderSeesWholeUpdate ==
    Visible.ok =>
        \A t \in {"T1", "T2"} :
            (HasTank(Visible.data, t) /\ HasSched(Visible.data, t)) =>
                \/ Quad(Visible.data, t) = Quad(doc0, t)
                \/ \E d \in ValidInputs :
                      Quad(Visible.data, t) = FullQuad(d, IntervalOf(doc0, t))

\* a reader has read T1 after an update changed all four of its dates
C1_Witness ==
    /\ resp.op \in Readers
    /\ resp.code = 200
    /\ HasTank(cache, "T1") /\ HasSched(cache, "T1")
    /\ Quad(cache, "T1") = FullQuad(D_2025_06_01, IntervalOf(doc0, "T1"))
    /\ Quad(cache, "T1") # Quad(doc0, "T1")

\* C2: when the write of an update fails, the document later reads return is
\* the document from before the update.
C2_CacheKeptWhenWriteFails ==
    [][(resp'.op = "update_maintenance" /\ resp'.error = "OSError")
          => cache' = LoadData(cache, file).data]_vars

\* tank t stands updated to cleaned date d in doc
UpdatedTo(doc, t, d) ==
    /\ HasTank(doc, t) /\ HasSched(doc, t)
    /\ Quad(doc, t) = FullQuad(d, IntervalOf(doc0, t))

\* C3: updates and reloads in any order lose no update: while no write has
\* failed, every tank whose update returned success stands updated to its
\* last cleaned date in the cached document and in data.json.
C3_NoLostUpdate ==
    ~wfail =>
        \A t \in {"T1", "T2"} :
            done[t] # <<>> =>
                /\ UpdatedTo(cache, t, done[t])
                /\ file.valid /\ UpdatedTo(file.doc, t, done[t])

\* both tanks were updated and the cache was reloaded after that
C3_Witness ==
    /\ done["T1"] # <<>> /\ done["T2"] # <<>>
    /\ ~wfail
    /\ resp.op = "reload_data"

\* C4: an update for an id with no tank, or with a tank but no schedule
\* entry, is answered 404 with the matching not-found error, never success
\* (the document having been loaded).
C4_NotFound ==
    (/\ resp.op = "update_maintenance"
     /\ resp.error # "JSONDecodeError"
     /\ ~(HasTank(doc0, resp.tank_id) /\ HasSched(doc0, resp.tank_id)))
    => /\ resp.code = 404
       /\ resp.error =
            IF HasTank(doc0, resp.tank_id) THEN "schedule_not_found" ELSE "tank_not_found"
       /\ ~resp.wrote

\* an update of T2, which has a tank and no schedule entry, was refused
C4_Witness ==
    /\ resp.op = "update_maintenance"
    /\ resp.tank_id = "T2"
    /\ HasTank(doc0, "T2") /\ ~HasSched(doc0, "T2")
    /\ resp.error = "schedule_not_found"

\* a calendar date written YYYY-MM-DD: four digits, two, two, and a day the
\* month has
IsYYYYMMDD(s) ==
    /\ Len(s) = 10
    /\ \A i \in {1, 2, 3, 4, 6, 7, 9, 10} : s[i] \in Digits
    /\ s[5] = "-" /\ s[8] = "-"
    /\ IntOf(SubSeq(s, 1, 4)) >= 1
    /\ IntOf(SubSeq(s, 6, 7)) \in 1..12
    /\ IntOf(SubSeq(s, 9, 10)) >= 1
    /\ IntOf(SubSeq(s, 9, 10)) <= DaysInMonth(IntOf(SubSeq(s, 1, 4)), IntOf(SubSeq(s, 6, 7)))

\* C5: for a tank with a schedule entry, an update whose cleaned_date is not
\* a YYYY-MM-DD calendar date is answered with the invalid-date error (the
\* store working).
C5_InvalidDate ==
    (/\ resp.op = "update_maintenance"
     /\ resp.error \notin {"JSONDecodeError", "OSError"}
     /\ HasTank(doc0, resp.tank_id) /\ HasSched(doc0, resp.tank_id)
     /\ ~IsYYYYMMDD(resp.cleaned_date))
    => /\ resp.code = 404
       /\ resp.error = "invalid_date"

\* the two pairs of dates of tank t in doc
SchedPair(doc, t) == <<SchedOf(doc, t).last_cleaned, SchedOf(doc, t).next_scheduled>>
TankPair(doc, t) == <<TankOf(doc, t).last_cleaned, TankOf(doc, t).next_maintenance>>

\* next_scheduled = last_cleaned + cleaning_interval_days, and the tank's
\* pair equals the entry's
Scheduled(doc, t) ==
    /\ HasTank(doc, t) /\ HasSched(doc, t)
    /\ StrptimeOk(SchedOf(doc, t).last_cleaned)
    /\ StrptimeOk(SchedOf(doc, t).next_scheduled)
    /\ Ymd2Ord(Strptime(SchedOf(doc, t).next_scheduled))
          = Ymd2Ord(Strptime(SchedOf(doc, t).last_cleaned)) + IntervalOf(doc, t)
    /\ TankPair(doc, t) = SchedPair(doc, t)

\* has an update touched the dates of t in doc
Touched(doc, t) ==
    \/ done[t] # <<>>
    \/ HasTank(doc, t) /\ HasSched(doc, t) /\ Quad(doc, t) # Quad(doc0, t)

\* C6: every tank an update has returned success for, or whose dates an
\* update has changed, has next_scheduled = last_cleaned + interval and the
\* tank's two dates equal to the entry's two, in the document readers get
\* and in data.json (when each holds a document): the two pairs move together.
C6_ScheduleInvariant ==
    \A t \in {"T1", "T2"} :
        /\ (Visible.ok /\ Touched(Visible.data, t)) => Scheduled(Visible.data, t)
        /\ (file.valid /\ Touched(file.doc, t)) => Scheduled(file.doc, t)

\* T1 was updated twice with success, to two different cleaned dates
C6_Witness ==
    /\ resp.op = "update_maintenance" /\ resp.code = 200 /\ resp.tank_id = "T1"
    /\ nupd = 2
    /\ done["T1"] = D_2025_6_1
    /\ Scheduled(cache, "T1")

\* C7: a successful update to "2025-06-01" of a tank whose interval is 30
\* leaves next_scheduled = "2025-07-01".
C7_JuneFirstPlusThirty ==
    (/\ resp.op = "update_maintenance" /\ resp.code = 200
     /\ resp.cleaned_date = D_2025_06_01
     /\ IntervalOf(cache, resp.tank_id) = 30)
    => /\ SchedOf(cache, resp.tank_id).next_scheduled = D_2025_07_01
       /\ SchedOf(file.doc, resp.tank_id).next_scheduled = D_2025_07_01

C7_Witness ==
    /\ resp.op = "update_maintenance" /\ resp.code = 200
    /\ resp.cleaned_date = D_2025_06_01 /\ resp.notes = "x"
    /\ resp.tank_id = "T1"
    /\ "cleaning_interval_days" \in DOMAIN SchedOf(cache, "T1")
    /\ SchedOf(cache, "T1").cleaning_interval_days = 30

\* C8: once a load has succeeded, a later load reads nothing from data.json
\* and returns the cached document, until reload_data; reload_data reads
\* data.json and returns what it holds.
C8_LoadOnce ==
    /\ (resp.op \in Readers /\ resp.hadLoaded) => resp.reads = 0
    /\ (resp.op = "reload_data" /\ resp.code = 200)
       => (resp.reads = 1 /\ resp.body = file.doc /\ cache = file.doc)

\* the status the threshold table gives (pH and turbidity in hundredths)
TableStatus(ph, tu, days) ==
    IF tu > 700 \/ ph < 600 \/ ph > 900 \/ days > 60 THEN "critical"
    ELSE IF ph < 650 \/ ph > 850 \/ tu > 500 \/ days > 30 THEN "warning"
    ELSE "normal"

\* a tank as returned by a read on the day `at` carries the table's status
\* for its readings and its age on that day
StatusByTable(t, at) ==
    LET days == at - Ymd2Ord(Strptime(t.last_cleaned))
        ph   == t.current_readings.ph
        tu   == t.current_readings.turbidity
    IN  /\ t.status \in {"normal", "warning", "critical"}
        /\ t.status = TableStatus(ph, tu, days)
        /\ (ph \in {650, 850} /\ tu = 500 /\ days = 30) => t.status = "normal"
        /\ (ph = 700 /\ tu = 0 /\ days < 0) => t.status = "normal"
        /\ (ph = 920 /\ tu = 800 /\ days = 65) => t.status = "critical"

\* C9: the status of every tank read is normal, warning or critical as the
\* threshold table gives it from (ph, turbidity, days_since_cleaned), with
\* the boundary values normal and ph 9.2, turbidity 8, 65 days critical.
C9_StatusTable ==
    /\ (resp.op = "get_single_tank" /\ resp.code = 200)
          => StatusByTable(resp.body, resp.at)
    /\ (resp.op = "get_all_tanks_with_status" /\ resp.code = 200)
          => \A i \in 1..Len(resp.body) : StatusByTable(resp.body[i], resp.at)

\* the tank with ph 9.2 and turbidity 8 was read 65 days after its cleaning
C9_Witness ==
    /\ resp.op = "get_single_tank" /\ resp.code = 200
    /\ resp.body.current_readings.ph = 920
    /\ resp.body.current_readings.turbidity = 800
    /\ resp.body.days_since_cleaned = 65
    /\ resp.body.status = "critical"

DerivedKeys == {"status", "days_since_cleaned", "days_until_maintenance"}

NoDerivedStored(doc) ==
    \A i \in 1..Len(Get(doc, "tanks", <<>>)) : DOMAIN doc.tanks[i] \cap DerivedKeys = {}

\* the derived fields of a tank returned by a read on the day `at` are those
\* of that day
FreshOn(t, at) ==
    /\ t.days_since_cleaned = at - Ymd2Ord(Strptime(t.last_cleaned))
    /\ t.days_until_maintenance = Ymd2Ord(Strptime(t.next_maintenance)) - at
    /\ t.status = TableStatus(t.current_readings.ph, t.current_readings.turbidity,
                              at - Ymd2Ord(Strptime(t.last_cleaned)))

DecimalLabel(recent, older, threshold) ==
    IF recent - older > threshold THEN "increasing"
    ELSE IF older - recent > threshold THEN "decreasing"
    ELSE "stable"

HistoryOf(doc, t) == Get(TankOf(doc, t), "history", <<>>)

\* C11: a trend verdict for an existing tank is insufficient_data when its
\* history has fewer than 2 entries, equals the verdict of the call before it
\* on the same tank, and the history stands as it was, in the cache and in
\* data.json.
C11_TrendIdempotent ==
    (resp.op = "get_trend_analysis" /\ resp.code = 200) =>
        /\ HistoryOf(cache, resp.tank_id) = HistoryOf(doc0, resp.tank_id)
        /\ file.valid /\ HistoryOf(file.doc, resp.tank_id) = HistoryOf(doc0, resp.tank_id)
        /\ Len(HistoryOf(doc0, resp.tank_id)) < 2
              => resp.body = [trend |-> "insufficient_data"]
        /\ resp.prev # EmptyDict => resp.body = resp.prev

\* the verdict was asked twice in a row for a tank with one history entry
C11_Witness ==
    /\ resp.op = "get_trend_analysis" /\ resp.code = 200
    /\ Len(HistoryOf(cache, resp.tank_id)) = 1
    /\ resp.prev = [trend |-> "insufficient_data"]
    /\ resp.body = resp.prev

\* C12: with 2 or more entries each label compares the last entry with the
\* first: increasing when last - first is more than the threshold (0.3 for
\* ph, 1 for turbidity and temperature), decreasing when first - last is,
\* stable otherwise, a difference equal to the threshold being stable; and
\* data_points is the number of entries.
C12_TrendLabels ==
    (/\ resp.op = "get_trend_analysis" /\ resp.code = 200
     /\ Len(HistoryOf(doc0, resp.tank_id)) >= 2)
    => LET h      == HistoryOf(doc0, resp.tank_id)
           recent == h[Len(h)]
           older  == h[1]
       IN  /\ resp.body.ph_trend = DecimalLabel(recent.ph, older.ph, 30)
           /\ resp.body.turbidity_trend =
                  DecimalLabel(recent.turbidity, older.turbidity, 100)
           /\ resp.body.temperature_trend =
                  DecimalLabel(recent.temperature, older.temperature, 100)
           /\ resp.body.data_points = Len(h)

\* the calls that look a tank up by an id, the alert explanation by the id
\* its alert names
TankConsumers ==
    {"get_single_tank", "get_tank_history", "get_trend_analysis",
     "api_predict_water_quality", "api_detect_leakage", "api_predict_maintenance",
     "update_maintenance", "api_explain_alert"}

\* C13: a call of any consumer with a tank id the document does not hold
\* ends in NotFound (404, None), never in a successful result
C13_MissingTankNotFound ==
    (/\ resp.op \in TankConsumers
     /\ resp.tank_id # ""
     /\ resp.code # 500
     /\ ~HasTank(cache, resp.tank_id))
        => resp.code = 404

\* the five predictor endpoints and the key each puts its result under
PredictorKey ==
    [api_predict_water_quality |-> "prediction", api_detect_leakage |-> "analysis",
     api_predict_maintenance |-> "maintenance", api_forecast_demand |-> "forecast",
     api_rainwater_harvesting |-> "harvesting"]

\* a client is configured, the call returned, and its text holds one JSON object
ModelAnswered(env) ==
    /\ env.key
    /\ env.reply \in {Text(JsonOnly), Text(Fenced), Text(EmptyObj)}

\* the result is what the model's reply parsed to
ModelDerived(body, key) == "members" \in DOMAIN body[key]

\* C14: a predictor's result is the fallback's, and tagged fallback, exactly
\* when no client is configured or the call or the parse of its reply failed;
\* a model-derived result never carries the tag
C14_FallbackTag ==
    (resp.op \in DOMAIN PredictorKey /\ resp.code = 200) =>
        LET key == PredictorKey[resp.op]
        IN  /\ resp.body.success = TRUE
            /\ ModelDerived(resp.body, key) <=> ModelAnswered(resp.env)
            /\ "fallback" \in DOMAIN resp.body <=> ~ModelAnswered(resp.env)
            /\ "fallback" \in DOMAIN resp.body => resp.body.fallback = TRUE
            /\ ModelDerived(resp.body, key) => DOMAIN resp.body = {"success", key}

\* a client is configured, its reply does not parse, and the result is the
\* tagged fallback forecast
C14_Witness ==
    /\ resp.op = "api_forecast_demand"
    /\ resp.code = 200
    /\ resp.env.key
    /\ resp.env.reply = Text(Unclosed)
    /\ resp.body.fallback = TRUE
    /\ ~ModelDerived(resp.body, "forecast")

\* total capacity of the fleet the document holds, in litres
FleetCapacity(doc) ==
    LET tanks == Get(doc, "tanks", <<>>)
        RECURSIVE Sum(_)
        Sum(i) == IF i = 0 THEN 0 ELSE tanks[i].capacity_liters + Sum(i - 1)
    IN  Sum(Len(tanks))

\* the seven daily figures of a forecast added up
DailySum(forecast) ==
    LET RECURSIVE Sum(_)
        Sum(i) == IF i = 0 THEN 0
                  ELSE forecast.daily_forecasts[i].predicted_demand_liters + Sum(i - 1)
    IN  Sum(7)

FallbackForecast ==
    /\ resp.op = "api_forecast_demand"
    /\ resp.code = 200
    /\ "fallback" \in DOMAIN resp.body

\* total x 0.15 x 6.7 is total x 201 / 200; q is that number rounded to the
\* nearest integer when twice its distance from q is at most 1, in 200ths
NearestTo201Over200(q, total) ==
    LET d == 200 * q - 201 * total
    IN  -100 <= d /\ d <= 100

\* C15 as stated: the weekly total is round(total capacity x 0.15 x 6.7)
C15_WeeklyRounded ==
    FallbackForecast =>
        NearestTo201Over200(resp.body.forecast.weekly_total_demand_liters,
                            FleetCapacity(cache))

\* C15: the weekly total is total capacity x 0.15 x 6.7 with the fraction
\* dropped, whatever the seven daily figures add up to
C15_WeeklyTruncated ==
    FallbackForecast =>
        resp.body.forecast.weekly_total_demand_liters
            = (201 * FleetCapacity(cache)) \div 200

\* a fleet whose weekly total is not the sum of its seven daily figures
C15_Witness ==
    /\ FallbackForecast
    /\ FleetCapacity(cache) > 0
    /\ resp.body.forecast.weekly_total_demand_liters # DailySum(resp.body.forecast)
    /\ resp.body.forecast.weekly_total_demand_liters
           = (201 * FleetCapacity(cache)) \div 200

\* floor(c x 10) mod 10 for a coordinate of c hundredths of a degree
FloorDigit(c) == (c \div 10) % 10

\* the ward_id the literal rule gives a tank
FloorWardId(tank) ==
    "ward_" \o ToString(FloorDigit(tank.location.lat))
        \o "_" \o ToString(FloorDigit(tank.location.lng))

\* the ward_id of the feature that lists tank t
WardOf(features, t) ==
    LET k == CHOOSE k \in 1..Len(features) :
                 \E i \in 1..Len(features[k].properties.tanks) :
                     features[k].properties.tanks[i].id = t
    IN  features[k].properties.ward_id

\* C16: every tank is listed under the ward of floor(lat x 10) mod 10 and
\* floor(lng x 10) mod 10, so tanks of one 0.1-degree cell share a ward
C16_WardByFloor ==
    (resp.op = "get_ward_geojson" /\ resp.code = 200) =>
        \A i \in 1..Len(cache.tanks) :
            WardOf(resp.body.features, cache.tanks[i].id) = FloorWardId(cache.tanks[i])

FallbackPrediction ==
    /\ resp.op = "api_predict_water_quality"
    /\ resp.code = 200
    /\ "fallback" \in DOMAIN resp.body

\* the number of samples the rate divides by, 1 where the rate is 0
Samples(tank) == IF Len(tank.history) >= 2 THEN Len(tank.history) ELSE 1

\* Samples times (current + k x rate), in hundredths: the rate is
\* (last - first) / number of samples for two samples or more, 0 otherwise
Projected(tank, key, k) ==
    LET h == tank.history
    IN  tank.current_readings[key] * Samples(tank)
            + (IF Len(h) >= 2 THEN k * (h[Len(h)][key] - h[1][key]) ELSE 0)

Floor0(x) == IF x < 0 THEN 0 ELSE x

\* p, in units of unit hundredths, is x / n rounded to the nearest unit
RoundedTo(p, unit, x, n) ==
    LET d == p * unit * n - x
    IN  -unit * n <= 2 * d /\ 2 * d <= unit * n

Confidence(h) == IF h = "24h" THEN 70 ELSE 50
Multiplier(h) == IF h = "24h" THEN 1 ELSE 2

\* C17 as stated: each horizon holds current + multiplier x rate itself
C17_ExactProjection ==
    FallbackPrediction =>
        \A h \in {"24h", "48h"} :
            LET p    == resp.body.prediction.predictions[h]
                tank == cache.tanks[1]
                n    == Samples(tank)
            IN  /\ p.ph * n = Projected(tank, "ph", Multiplier(h))
                /\ p.turbidity * n = Floor0(Projected(tank, "turbidity", Multiplier(h)))
                /\ p.temperature * 10 * n = Projected(tank, "temperature", Multiplier(h))
                /\ p.confidence = Confidence(h)

\* C17: each horizon holds current + multiplier x rate rounded to two
\* decimals (temperature to one), turbidity floored at 0 before the rounding,
\* with confidence 0.7 and 0.5
C17_RoundedProjection ==
    FallbackPrediction =>
        \A h \in {"24h", "48h"} :
            LET p    == resp.body.prediction.predictions[h]
                tank == cache.tanks[1]
                n    == Samples(tank)
            IN  /\ RoundedTo(p.ph, 1, Projected(tank, "ph", Multiplier(h)), n)
                /\ RoundedTo(p.turbidity, 1,
                             Floor0(Projected(tank, "turbidity", Multiplier(h))), n)
                /\ p.turbidity >= 0
                /\ RoundedTo(p.temperature, 10,
                             Projected(tank, "temperature", Multiplier(h)), n)
                /\ p.confidence = Confidence(h)

\* three samples whose turbidity falls so fast that both horizons are floored
\* at 0, while pH is projected to a value that needed rounding
C17_Witness ==
    /\ FallbackPrediction
    /\ Len(cache.tanks[1].history) = 3
    /\ Projected(cache.tanks[1], "turbidity", 1) < 0
    /\ resp.body.prediction.predictions["24h"].turbidity = 0
    /\ resp.body.prediction.predictions["48h"].turbidity = 0
    /\ Projected(cache.tanks[1], "ph", 1) % 3 # 0

FallbackLeakage ==
    /\ resp.op = "api_detect_leakage"
    /\ resp.code = 200
    /\ "fallback" \in DOMAIN resp.body

\* the average of the changes of turbidity from each sample to the next is
\* (last - first) / (samples - 1); its magnitude exceeds 1, in hundredths
AvgChangeOver1(history) ==
    LET n == Len(history)
        d == IF n >= 2 THEN history[n].turbidity - history[1].turbidity ELSE 0
    IN  n >= 2 /\ (d > 100 * (n - 1) \/ -d > 100 * (n - 1))

\* C18: an anomaly is flagged iff the level is under 30 or over 95 or the
\* average turbidity change exceeds 1 in magnitude; its type is overflow
\* over 95, else leakage under 30, else unusual_consumption, none without one
C18_AnomalyRule ==
    FallbackLeakage =>
        LET level   == cache.tanks[1].current_level_percent
            a       == resp.body.analysis
            anomaly == level < 30 \/ level > 95 \/ AvgChangeOver1(cache.tanks[1].history)
        IN  /\ a.anomaly_detected = anomaly
            /\ a.anomaly_type = IF ~anomaly THEN "none"
                                ELSE IF level > 95 THEN "overflow"
                                ELSE IF level < 30 THEN "leakage"
                                ELSE "unusual_consumption"

\* C19: the government alert needs an anomaly and a level under 20, which
\* for levels 0..100 is exactly a level under 20; the overflow risk is
\* (level - 85) x 5 over 85 and 0 otherwise, so it lies in 0..75
C19_AlertAndOverflowRisk ==
    FallbackLeakage =>
        LET level == cache.tanks[1].current_level_percent
            a     == resp.body.analysis
        IN  /\ a.government_alert_required => (a.anomaly_detected /\ level < 20)
            /\ a.government_alert_required <=> level < 20
            /\ a.details.overflow_risk_percent
                   = IF level > 85 THEN (level - 85) * 5 ELSE 0
            /\ a.details.overflow_risk_percent \in 0..75

\* a full tank: overflow risk 75 and no government alert
C19_Witness ==
    /\ FallbackLeakage
    /\ cache.tanks[1].current_level_percent = 100
    /\ resp.body.analysis.details.overflow_risk_percent = 75
    /\ ~resp.body.analysis.government_alert_required
    /\ resp.body.analysis.anomaly_detected

FallbackMaintenance ==
    /\ resp.op = "api_predict_maintenance"
    /\ resp.code = 200
    /\ "fallback" \in DOMAIN resp.body

\* days from the tank's last cleaning to the day of the call
DaysSinceCleaned(tank) == resp.at - Ymd2Ord(Strptime(tank.last_cleaned))

\* the tier table: urgency and lead for a turbidity in hundredths and an age
TierTable(turbidity, days) ==
    IF turbidity > 500 \/ days > 45 THEN <<"immediate", 0>>
    ELSE IF turbidity > 300 \/ days > 35 THEN <<"urgent", 3>>
    ELSE IF days > 25 THEN <<"soon", 7>>
    ELSE <<"routine", IF days < 30 THEN 30 - days ELSE 0>>

\* C20: the first matching tier gives urgency and lead, the recommended date
\* is the day of the call plus the lead, and the compliance flag is
\* days_since_cleaned <= 30
C20_MaintenanceTiers ==
    FallbackMaintenance =>
        LET tank == cache.tanks[1]
            days == DaysSinceCleaned(tank)
            tier == TierTable(tank.current_readings.turbidity, days)
            m    == resp.body.maintenance
        IN  /\ m.urgency = tier[1]
            /\ m.days_until_recommended = tier[2]
            /\ m.recommended_cleaning_date = Strftime(Ord2Ymd(resp.at + tier[2]))
            /\ m.government_compliance.bis_compliant = (days <= 30)

\* clear water 36 days after the cleaning: urgent, three days ahead, not compliant
C20_Witness ==
    /\ FallbackMaintenance
    /\ DaysSinceCleaned(cache.tanks[1]) = 36
    /\ cache.tanks[1].current_readings.turbidity = 300
    /\ resp.body.maintenance.urgency = "urgent"
    /\ resp.body.maintenance.days_until_recommended = 3
    /\ resp.body.maintenance.recommended_cleaning_date
           = Strftime(Ord2Ymd(resp.at + 3))
    /\ ~resp.body.maintenance.government_compliance.bis_compliant

WardsAnswer == resp.op = "get_ward_geojson" /\ resp.code = 200

\* the ward of feature f lists a tank of status st
WardHas(f, st) ==
    \E i \in 1..Len(f.properties.tanks) : f.properties.tanks[i].status = st

\* C21: a ward is (critical, 30) iff it holds a critical tank, (warning, 60)
\* iff it holds no critical tank but a warning one, and (normal, 90) otherwise
C21_WardTiers ==
    WardsAnswer =>
        \A k \in 1..Len(resp.body.features) :
            LET f == resp.body.features[k]
                p == f.properties
            IN  /\ <<p.status, p.health_score>>
                       \in {<<"critical", 30>>, <<"warning", 60>>, <<"normal", 90>>}
                /\ p.status = "critical" <=> WardHas(f, "critical")
                /\ p.status = "warning"
                       <=> (~WardHas(f, "critical") /\ WardHas(f, "warning"))

\* a ward of a warning tank and a critical one is critical with score 30,
\* beside a ward that is normal with score 90
C21_Witness ==
    /\ WardsAnswer
    /\ \E k \in 1..Len(resp.body.features) :
           LET f == resp.body.features[k]
           IN  /\ WardHas(f, "warning") /\ WardHas(f, "critical")
               /\ f.properties.status = "critical" /\ f.properties.health_score = 30
    /\ \E k \in 1..Len(resp.body.features) :
           /\ resp.body.features[k].properties.status = "normal"
           /\ resp.body.features[k].properties.health_score = 90

RainwaterAnswer ==
    /\ resp.op = "api_rainwater_harvesting"
    /\ resp.code = 200
    /\ "fallback" \in DOMAIN resp.body

\* (100 - level) x capacity / 100 of a tank, in hundredths of a litre
Overflow100(tank) == (100 - tank.current_level_percent) * tank.capacity_liters

\* the sum of Overflow100 over the first n tanks
TotalOverflow100(tanks, n) ==
    LET RECURSIVE Sum(_)
        Sum(i) == IF i = 0 THEN 0 ELSE Overflow100(tanks[i]) + Sum(i - 1)
    IN  Sum(n)

\* the tanks that can take more than 50,000 litres, in fleet order, at most 5
FirstFiveOver50000(tanks) ==
    LET over == SelectSeq(tanks, LAMBDA t : Overflow100(t) > 5000000)
    IN  SubSeq(over, 1, IF Len(over) < 5 THEN Len(over) ELSE 5)

\* C22 as stated: the recommended tanks are the first five over 50,000, each
\* with score min(100, overflow / 1000) itself, and the monthly estimate is
\* total x 0.3 itself
C22_RainwaterExact ==
    RainwaterAnswer =>
        LET hp   == resp.body.harvesting.harvesting_potential
            want == FirstFiveOver50000(cache.tanks)
        IN  /\ Len(hp.recommended_tanks) = Len(want)
            /\ \A i \in 1..Len(want) :
                   /\ hp.recommended_tanks[i].name = want[i].name
                   /\ IF Overflow100(want[i]) >= 10000000
                      THEN hp.recommended_tanks[i].harvesting_score = 100
                      ELSE hp.recommended_tanks[i].harvesting_score * 100000
                               = Overflow100(want[i])
            /\ hp.estimated_monthly_collection_liters * 1000
                   = 3 * TotalOverflow100(cache.tanks, Len(cache.tanks))

\* C22: the recommended tanks are the first five over 50,000 in fleet order,
\* each with its overflow capacity and min(100, overflow / 1000) cut to whole
\* numbers; the total and the monthly estimate total x 0.3 are cut likewise
C22_RainwaterTruncated ==
    RainwaterAnswer =>
        LET hp    == resp.body.harvesting.harvesting_potential
            want  == FirstFiveOver50000(cache.tanks)
            total == TotalOverflow100(cache.tanks, Len(cache.tanks))
        IN  /\ Len(hp.recommended_tanks) = Len(want)
            /\ \A i \in 1..Len(want) :
                   /\ hp.recommended_tanks[i].name = want[i].name
                   /\ hp.recommended_tanks[i].overflow_capacity_liters
                          = Overflow100(want[i]) \div 100
                   /\ hp.recommended_tanks[i].harvesting_score
                          = IF Overflow100(want[i]) >= 10000000 THEN 100
                            ELSE Overflow100(want[i]) \div 100000
            /\ hp.total_overflow_capacity_liters = total \div 100
            /\ hp.estimated_monthly_collection_liters = (3 * total) \div 1000

\* six tanks of seven can take more than 50,000 litres and the first five of
\* them are recommended, the tank in between left out
C22_Witness ==
    /\ RainwaterAnswer
    /\ Len(cache.tanks) = 7
    /\ Len(SelectSeq(cache.tanks, LAMBDA t : Overflow100(t) > 5000000)) = 6
    /\ [i \in 1..5 |->
           resp.body.harvesting.harvesting_potential.recommended_tanks[i].name]
           = <<"T1", "T2", "T4", "T5", "T6">>

\* the number of tanks of the listed fleet that the status classifier labels st
ClassifiedAs(st) ==
    Cardinality({i \in 1..Len(cache.tanks) :
                    TableStatus(cache.tanks[i].current_readings.ph,
                                cache.tanks[i].current_readings.turbidity,
                                resp.at - Ymd2Ord(Strptime(cache.tanks[i].last_cleaned)))
                        = st})

\* C23: the rollup's critical and warning counts are the numbers of tanks of
\* those health statuses, and the three counts add up to the fleet size
C23_RollupCountsByStatus ==
    (resp.op = "get_system_analytics" /\ resp.code = 200) =>
        /\ resp.body.critical_count = ClassifiedAs("critical")
        /\ resp.body.warning_count = ClassifiedAs("warning")
        /\ resp.body.critical_count + resp.body.warning_count + resp.body.normal_count
               = Len(cache.tanks)

\* the maintenance dict of tank t, and its notes ("" when it has none)
MaintenanceOf(doc, t) == Get(TankOf(doc, t), "maintenance", EmptyDict)
NotesOf(doc, t) == Get(MaintenanceOf(doc, t), "notes", "")

\* C24: after a successful update the tank's maintenance notes are the notes
\* of that call, whatever an earlier update stored, and maintenance.last_cleaned
\* is the tank's last_cleaned
C24_NotesOverwritten ==
    (resp.op = "update_maintenance" /\ resp.code = 200) =>
        /\ NotesOf(cache, resp.tank_id) = resp.notes
        /\ NotesOf(file.doc, resp.tank_id) = resp.notes
        /\ MaintenanceOf(cache, resp.tank_id).last_cleaned
               = TankOf(cache, resp.tank_id).last_cleaned

\* the dict d with the defaults for the keys it lacks
WithDefaults(d, defaults) == Merge(defaults, d)

\* the tank with the given defaults for missing fields and missing readings
FilledTank(tank, fields, readings) ==
    Merge(WithDefaults(tank, fields),
          [current_readings |->
              WithDefaults(Get(tank, "current_readings", EmptyDict), readings)])

FilledHistory(history, readings) ==
    [i \in 1..Len(history) |-> WithDefaults(history[i], readings)]

\* pH 7.0, turbidity 1.0, temperature 20.0 of the water-quality prediction
PredictionDefaults == [ph |-> 700, turbidity |-> 100, temperature |-> 2000]

\* what the other four fallbacks are to return for the arguments of the call:
\* level 50 and turbidity 0 for the leakage detector, age 0 and turbidity 0
\* for the maintenance recommendation, capacity 0 and level 0 for the fleet
\* estimates
OtherFallbacksByDefaults ==
    LET tank == resp.args.tank_data
        h    == resp.args.history
    IN  /\ resp.op = "detect_leakage_fallback" =>
               resp.body = DetectLeakageFallback(
                               FilledTank(tank, [current_level_percent |-> 50], EmptyDict),
                               FilledHistory(h, [turbidity |-> 0]))
        /\ resp.op = "predict_maintenance_fallback" =>
               resp.body = PredictMaintenanceFallback(
                               FilledTank(tank, [days_since_cleaned |-> 0],
                                          [turbidity |-> 0]), resp.at)
        /\ resp.op = "forecast_demand_fallback" =>
               resp.body = ForecastDemandFallback(
                               <<FilledTank(tank, [capacity_liters |-> 0], EmptyDict),
                                 FullTank>>, resp.at)
        /\ resp.op = "rainwater_fallback" =>
               resp.body = RainwaterFallback(
                               <<FilledTank(tank, [capacity_liters |-> 0,
                                                   current_level_percent |-> 0],
                                            EmptyDict), FullTank>>)

FallbackApplied ==
    resp.op \in {"generate_fallback_prediction", "detect_leakage_fallback",
                 "predict_maintenance_fallback", "forecast_demand_fallback",
                 "rainwater_fallback"}

\* C25 as stated: every fallback succeeds on a record with fields missing and
\* returns what it returns for the record with the documented defaults in
\* their place, pH 7.0, turbidity 1.0 and temperature 20.0 in the prediction's
\* history entries too
C25_DocumentedDefaults ==
    FallbackApplied =>
        /\ resp.body.success = TRUE
        /\ OtherFallbacksByDefaults
        /\ resp.op = "generate_fallback_prediction" =>
               resp.body = GenerateFallbackPrediction(
                               FilledTank(resp.args.tank_data, EmptyDict,
                                          PredictionDefaults),
                               FilledHistory(resp.args.history, PredictionDefaults))

\* C25: every fallback succeeds on a record with fields missing and returns
\* what it returns for the record with the defaults in their place; in the
\* prediction a history entry's missing reading is the tank's current one
C25_DefaultsNeverFail ==
    FallbackApplied =>
        /\ resp.body.success = TRUE
        /\ OtherFallbacksByDefaults
        /\ resp.op = "generate_fallback_prediction" =>
               LET tank == FilledTank(resp.args.tank_data, EmptyDict, PredictionDefaults)
               IN  resp.body = GenerateFallbackPrediction(
                                   tank,
                                   FilledHistory(resp.args.history,
                                                 tank.current_readings))

\* a tank without readings whose last history entry has no pH: the rate is
\* (7.0 - 7.1) / 2 and the near prediction 6.95
C25_Witness ==
    /\ resp.op = "generate_fallback_prediction"
    /\ "current_readings" \notin DOMAIN resp.args.tank_data
    /\ Len(resp.args.history) = 2
    /\ "ph" \in DOMAIN resp.args.history[1]
    /\ "ph" \notin DOMAIN resp.args.history[2]
    /\ resp.body.success = TRUE
    /\ resp.body.prediction.predictions["24h"].ph = 695

\* the step is a call of update_maintenance that returned success False
RefusedUpdate ==
    /\ nupd' = nupd + 1
    /\ resp'.op = "update_maintenance"
    /\ resp'.error \in {"tank_not_found", "schedule_not_found", "invalid_date"}

\* C26: an update refused for an unknown tank, a missing schedule entry or an
\* unparseable date leaves the document readers get and the backing store as
\* they were, and writes nothing
C26_RefusedUpdateChangesNothing ==
    [][RefusedUpdate =>
          /\ file' = file
          /\ LoadData(cache', file').data = LoadData(cache, file).data
          /\ ~resp'.wrote]_vars

\* an update of T2 refused for its missing schedule entry after T1 was
\* updated: the cache is what the store holds, T2 as it was at the start
C26_Witness ==
    /\ resp.op = "update_maintenance"
    /\ resp.error = "schedule_not_found"
    /\ resp.tank_id = "T2"
    /\ done["T1"] # <<>>
    /\ ~resp.wrote
    /\ cache = file.doc
    /\ TankOf(cache, "T2") = TankOf(doc0, "T2")

\* the last call was a read of a tank that an update had succeeded on
ReadAfterUpdate ==
    /\ resp.op = "get_single_tank"
    /\ resp.code = 200
    /\ resp.tank_id \in DOMAIN done
    /\ done[resp.tank_id] # <<>>

\* C27: a read of a tank after a successful update of it, on any date, has
\* days_since_cleaned + days_until_maintenance equal to the tank's
\* cleaning_interval_days, 30 when its schedule entry has none
C27_AgePlusLeadIsInterval ==
    ReadAfterUpdate =>
        resp.body.days_since_cleaned + resp.body.days_until_maintenance
            = IntervalOf(doc0, resp.tank_id)

\* a weekly tank cleaned on 2025-06-01 and read when its next cleaning is
\* overdue: the lead is negative
C27_Witness ==
    /\ ReadAfterUpdate
    /\ IntervalOf(doc0, resp.tank_id) = 7
    /\ resp.body.last_cleaned = D_2025_06_01
    /\ resp.body.days_until_maintenance < 0
    /\ resp.body.days_since_cleaned > 7

\* a tank whose schedule entry has no interval, read after its update
C27_WitnessDefault ==
    /\ ReadAfterUpdate
    /\ "cleaning_interval_days" \notin DOMAIN SchedOf(doc0, resp.tank_id)
    /\ resp.body.days_since_cleaned + resp.body.days_until_maintenance = 30

\* C28: in the fallback maintenance recommendation the lead never increases
\* with the cleaning age at a fixed turbidity: the lead answered for a tank
\* cleaned d2 days ago is at most the lead of every age d1 with 0 <= d1 <= d2
C28_LeadNeverIncreases ==
    (FallbackMaintenance /\ DaysSinceCleaned(cache.tanks[1]) >= 0) =>
        LET tank == cache.tanks[1]
        IN  \A d1 \in 0..DaysSinceCleaned(tank) :
                resp.body.maintenance.days_until_recommended
                    <= MaintenanceTier(tank.current_readings.turbidity, d1).days_until

RECURSIVE SumSeq(_)
\* the sum of a sequence of integers
SumSeq(s) == IF s = <<>> THEN 0 ELSE Head(s) + SumSeq(Tail(s))

\* the wards whose tanks list names the tank id
WardsListing(id) ==
    {k \in 1..Len(resp.body.features) :
        \E j \in 1..Len(resp.body.features[k].properties.tanks) :
            resp.body.features[k].properties.tanks[j].id = id}

C29_WitnessInterleaved ==
    /\ WardsAnswer
    /\ Len(cache.tanks) = 3
    /\ Len(resp.body.features) = 2
    /\ WardsListing("T1") = {1} /\ WardsListing("T2") = {2} /\ WardsListing("T3") = {1}

\* validate_token answered valid
ValidAnswer == resp.op = "validate_token" /\ resp.body.valid

\* a token validates only if a successful authenticate_user issued it, no
\* successful logout or expired validation has deleted it since, and fewer
\* than 24 hours have gone by since it was issued
ValidOnlyIfLive ==
    ValidAnswer =>
        /\ resp.token \in DOMAIN issued
        /\ resp.token \notin revoked
        /\ resp.now < issued[resp.token] + 24

\* a token a successful logout or an expired validation has deleted is not
\* in the table
RevokedAbsent == \A t \in revoked : t \notin DOMAIN active_tokens

\* a successful logout and an expired validation delete their token
DeletedOnTheSpot ==
    /\ (resp.op = "logout" /\ resp.body.success) => resp.token \notin DOMAIN active_tokens
    /\ (resp.op = "validate_token" /\ ~resp.body.valid /\ resp.token \in DOMAIN issued
            /\ resp.now >= issued[resp.token] + 24)
          => resp.token \notin DOMAIN active_tokens

\* the step is a logout of a token that is not in the table
UnknownLogout ==
    /\ resp' # resp
    /\ resp'.op = "logout"
    /\ resp'.token \notin DOMAIN active_tokens

\* C30: tokens follow issue, validate, revoke: a token validates only while
\* issued, not logged out and not expired; after a successful logout or one
\* validation past its expiry it is out of the table and validates no more;
\* a logout of an unknown token fails and leaves the table as it was
C30_TokenLifecycle ==
    /\ [](ValidOnlyIfLive /\ RevokedAbsent /\ DeletedOnTheSpot)
    /\ [][UnknownLogout => (~resp'.body.success /\ active_tokens' = active_tokens)]_vars

\* a token validated exactly 24 hours after it was issued is refused and
\* deleted while a later session is still in the table
C30_Witness ==
    /\ resp.op = "validate_token"
    /\ ~resp.body.valid
    /\ resp.token \in DOMAIN issued
    /\ resp.now = issued[resp.token] + 24
    /\ resp.token \in revoked
    /\ resp.token \notin DOMAIN active_tokens
    /\ active_tokens # EmptyDict

\* a token that validated at hour 12 of its life
C30_WitnessValid ==
    /\ ValidAnswer
    /\ resp.now = issued[resp.token] + 12
    /\ resp.body.user.expires = issued[resp.token] + 24

====
